---- MODULE Spec2Model ----
(***************************************************************************)
(* Model of the asynchronous delivery subsystem of magnetde/log:           *)
(*   - the job queue of queue.go (run goroutine, worker goroutines,        *)
(*     pushJob / stopQueue / wait),                                        *)
(*   - the rotating file sink of transporters.go (FileTransporter) with    *)
(*     renameAll of utils.go, and its I/O errors,                          *)
(*   - the remote sink (ServerTransporter): validation, responses and the  *)
(*     error throttle; its older version of transporter.go,                *)
(*   - the logrus hook of hook.go (ServerHook),                            *)
(*   - the Logger of log.go and the level filter of the console sink,      *)
(*   - the recursive renameAll of the second version of utils.go,          *)
(*   - rotate and rotateArchives on a directory of named files, the level  *)
(*     filters of several sinks and the mutex of the Logger.               *)
(* SpecQueue explores the queue with one producer, FairSpecQueue the same  *)
(* under fair scheduling, SpecQueueFail with failing handlers,             *)
(* SpecProducers with concurrent producers and SpecQueueSteps with the     *)
(* push case of run() taken in two steps; SpecFile explores the file       *)
(* sink, SpecFault the file sink with failing writes and renames,          *)
(* SpecServer the remote sink, SpecOldServer its older version, SpecHook   *)
(* the hook, SpecHookCallers the hook called by two goroutines,            *)
(* SpecLogger the Logger, SpecConsole the console sink, SpecRename the     *)
(* recursive renameAll, SpecArchives one call of rotateArchives on file    *)
(* names, SpecRotate the loop of rotate around it (FairSpecRotate under    *)
(* fair scheduling), SpecLevels a logger with several level filters and    *)
(* SpecMutex the Logger called by several goroutines.                      *)
(***************************************************************************)
EXTENDS Integers, Sequences, FiniteSets, TLC

(***************************************************************************)
(* Bounds                                                                  *)
(***************************************************************************)
MaxJobs == 3        \* jobs a client submits to one queue
MaxStops == 2       \* stopQueue calls a client makes on one queue
MaxWaits == 2       \* wait calls a client makes on one queue
MaxLimit == 2       \* largest ConcurrencyLimit explored (0 = unlimited)
MaxProducers == 2   \* further goroutines that can be in pushJob at once

VARIABLES
    \* ---- queue.go: type queue ----
    ConcurrencyLimit,   \* q.ConcurrencyLimit
    buffer,             \* q.buffer
    count,              \* q.count
    suspended,          \* q.suspended
    stopped,            \* q.stopped
    wg,                 \* counter of q.wg
    runPc,              \* run goroutine: "select" or "exited"
    wk,                 \* per job: state of the goroutine run() spawned for it
    \* ---- the client goroutine using the queue ----
    cpc,                \* "idle", or blocked in "push" / "stop" / "wait"
    pushed,             \* number of pushJob calls begun
    stops,              \* number of stopQueue calls that returned
    waits,              \* number of wait calls that returned
    \* ---- history ----
    submitted,          \* jobs received by run() from q.push, in order
    executed,           \* jobs handed to q.Handler, in order
    atClose,            \* submitted, as it was when the first stopQueue began
    closeDone           \* a wait() that followed a stopQueue has returned

VARIABLES
    \* ---- transporters.go: type FileTransporter ----
    RotateBytes,        \* t.RotateBytes
    RotateLines,        \* t.RotateLines
    Rotations,          \* t.Rotations
    fileOpen,           \* t.file is an open handle
    fsize,              \* t.fsize
    flines,             \* t.flines
    closed,             \* t.closed
    fq,                 \* jobs waiting in t.queue
    \* ---- the file system ----
    live,               \* lines of the file at t.Path
    arch,               \* index N |-> lines of <prefix>.N.gz, for the files that exist
    \* ---- the queue worker inside the handler / rotate ----
    wpc,                \* "idle", "loop", "rename", "open", "copy", "truncate", "gzclose"
    D,                  \* renameAll: the rename map
    todo,               \* renameAll: keys the range loop has not visited yet
    moved,              \* renameAll: the set moved
    gzbuf,              \* lines the gzip writer holds in memory, not yet in the file
    \* ---- the goroutine that logs ----
    ppc,                \* "new", "open", "closing", "closed"
    logged,             \* number of lines logged so far
    inits,              \* number of Init calls
    \* ---- history ----
    rotations,          \* number of rotate() calls that passed their guard
    clobbered,          \* names on which os.Rename replaced an existing file
    evicted,            \* lines of the archives rotateArchives removed
    arch0,              \* arch in the initial state
    live0               \* live in the initial state

qvars == <<ConcurrencyLimit, buffer, count, suspended, stopped, wg, runPc, wk,
           cpc, pushed, stops, waits, atClose, closeDone>>

fvars == <<RotateBytes, RotateLines, Rotations, fileOpen, fsize, flines, closed,
           fq, live, arch, wpc, D, todo, moved, gzbuf, ppc, logged, inits,
           rotations, clobbered, evicted, arch0, live0>>

VARIABLES
    \* ---- queue.go: the handler's outcome and further producers ----
    failed,             \* jobs whose handler returned after an error
    pending,            \* jobs other goroutines are blocked sending on q.push
    cval                \* the job the client is sending on q.push

VARIABLES
    \* ---- transporters.go: FileTransporter, history ----
    wfailed,            \* lines whose WriteString returned an error
    shiftErr            \* <<>>, or the state in which rotateArchives failed

VARIABLES
    \* ---- error reports of the sinks ----
    SuppressErrors,     \* t.SuppressErrors
    now,                \* the clock, in units of five minutes
    shownAt,            \* times at which an error was written to the console
    failedAt            \* times at which showError was called

VARIABLES
    \* ---- transporters.go: type ServerTransporter ----
    Type,               \* t.Type
    URL,                \* t.URL
    initErr,            \* error the latest Init returned ("": nil or no Init yet)
    lastRes,            \* <<outcome of the latest request>>, <<>> before it
    lastCalled,         \* the handler called showError for that request
    lastErrorShown,     \* t.lastErrorShown
    sq,                 \* jobs waiting in t.queue
    sclosed,            \* t.closed
    \* ---- the goroutine that logs to the server sink ----
    spc,                \* "new", "open", "closing", "closed"
    slogged,            \* number of entries logged so far
    sinits              \* number of Init calls

VARIABLES
    \* ---- hook.go: type ServerHook ----
    typ,                \* typ given to NewServerHook
    url,                \* url given to NewServerHook
    herr,               \* error NewServerHook returned ("": nil)
    synchronous,        \* h.synchronous
    installed,          \* the hook is added to logrus' standard logger
    BufSize,            \* capacity h.buf was made with
    hbuf,               \* entries in the channel h.buf
    hwg,                \* counter of h.wg
    nextError,          \* h.nextError
    mu,                 \* h.mu: read locks held, state of the writer
    \* ---- goroutines: call stacks, innermost frame last ----
    ustack,             \* the goroutine that logs
    wstack,             \* the worker goroutine
    \* ---- history ----
    fired,              \* number of entries the logging goroutine has fired
    sent,               \* entries whose sendEntry has returned
    returned,           \* entries whose Fire has returned
    atFlush,            \* <<returned, as it was when the latest Flush was called>>
    fatalFired,         \* <<entry of the latest Fire>> if its level is Panic or Fatal
    reports             \* number of entries logrus.Error made for showError

VARIABLES
    \* ---- log.go: type Logger ----
    lg,                 \* "nil": no Logger yet, "made": the Logger exists
    lts,                \* l.ts
    \* ---- the transporters given to the logger ----
    fails,              \* per transporter: its Init returns an error
    tinits,             \* per transporter: number of Init calls that succeeded
    topen,              \* per transporter: initialised and not closed since
    tlog,               \* per transporter: number of entries it has taken
    \* ---- the goroutine that uses the logger ----
    lcalls,             \* number of CreateLogger / Init calls
    llogged,            \* number of Log calls
    \* ---- history ----
    lret,               \* error the latest CreateLogger / Init returned ("": nil)
    largs               \* transporters given to the latest CreateLogger / Init

VARIABLES
    \* ---- transporter.go: type ServerTransporter ----
    tqueue,             \* t.queue: "nil" or "set"
    \* ---- the goroutine that uses that sink ----
    tpc,                \* "idle", or in Close: "stop" (stopQueue), "wait" (wait)
    tcloses,            \* number of Close calls that returned
    \* ---- history ----
    late                \* entries logged to the sink after a Close had returned

VARIABLES
    \* ---- transporters.go: type ConsoleTransporter ----
    MinLevel,           \* t.MinLevel
    Output,             \* levels of the lines written to t.Output, in order
    \* ---- history ----
    called              \* levels of the Transport calls, in order

VARIABLES
    \* ---- queue.go: run() between its receive and its next select ----
    val                 \* the value run() received from q.push

VARIABLES
    \* ---- log.go: a Logger used by several goroutines ----
    lmu,                \* l.mu: the goroutine that holds it, 0 for none
    cts,                \* l.ts
    callers,            \* per goroutine: the call it is in
    observed,           \* per transporter: entries its Transport was called with
    entries,            \* number of Log calls begun
    calls               \* number of Init and Close calls begun

VARIABLES
    \* ---- a logger and the MinLevel of its transporters ----
    impl,               \* "Logger": Logger.Log of log.go, "package": logInternal
    tmin,               \* per transporter of l.ts / transports, in order: MinLevel
    got,                \* per transporter: levels of the entries it has written
    logs                \* levels of the entries logged, in order

VARIABLES
    \* ---- rotateArchives on a directory of named files ----
    prefix,             \* the argument prefix, a string as a sequence of characters
    files,              \* files of ioutil.ReadDir the loop has not visited yet
    renames,            \* the map renames
    removed,            \* names given to os.Remove
    renamed,            \* renameAll: the set moved
    apc,                \* "exists", "start", "loop", "rename", "done", or, once
                        \* rotate has left its loop, "break" or the call whose
                        \* error it has reported
    adir,               \* the directory: name |-> content
    adir0,              \* the directory as rotateArchives found it
    stuck               \* the names on which os.Remove fails

VARIABLES
    \* ---- renameAll / renameRecursive (second version of utils.go) ----
    fmap,               \* the map fmap: file |-> new name
    fnames,             \* the set filenames
    rfs,                \* the directory: file |-> content
    rstack,             \* frames of renameRecursive, innermost last
    rpc,                \* renameAll: "loop", "call" (in renameRecursive), "done"
    rerr,               \* error renameAll returned ("": nil)
    \* ---- history ----
    rclob,              \* contents of the files an os.Rename replaced
    rfails,             \* number of os.Rename calls that failed on files present
    fmap0               \* fmap as it was given

q2vars == <<failed, pending, cval>>

f2vars == <<wfailed, shiftErr>>

rvars == <<SuppressErrors, now, shownAt, failedAt>>

svars == <<Type, URL, initErr, lastRes, lastCalled, lastErrorShown, sq,
           sclosed, spc, slogged, sinits>>

kvars == <<lmu, cts, callers, observed, entries, calls>>

mvars == <<impl, tmin, got, logs>>

gvars == <<prefix, files, renames, removed, renamed, apc, adir, adir0,
           stuck>>

xvars == <<val>>

nvars == <<fmap, fnames, rfs, rstack, rpc, rerr, rclob, rfails, fmap0>>

cvars == <<MinLevel, Output, called>>

ovars == <<tqueue, tpc, tcloses, late>>

lvars == <<lg, lts, lret, largs, lcalls, fails, tinits, topen, tlog, llogged>>

hvars == <<typ, url, herr, sent, returned, atFlush, fatalFired, synchronous,
           installed, BufSize, hbuf, hwg, nextError, mu, ustack,
           wstack, fired, reports>>

nonServer == <<qvars, q2vars, fvars, f2vars, hvars, lvars, xvars, ovars,
               cvars, nvars, gvars, mvars, kvars, submitted, executed>>

nonHook == <<qvars, q2vars, fvars, f2vars, svars, lvars, xvars, ovars, cvars,
             nvars, gvars, mvars, kvars, submitted, executed>>

nonQueue == <<fvars, f2vars, rvars, svars, hvars, lvars, xvars, ovars, cvars,
              nvars, gvars, mvars, kvars>>

nonFile == <<qvars, q2vars, svars, hvars, lvars, xvars, ovars, cvars, nvars,
             gvars, mvars, kvars>>

nonLogger == <<qvars, q2vars, fvars, f2vars, rvars, svars, hvars, xvars,
               ovars, cvars, nvars, gvars, mvars, kvars, submitted, executed>>

nonConsole == <<qvars, q2vars, fvars, f2vars, rvars, svars, hvars, lvars,
                xvars, ovars, nvars, gvars, mvars, kvars, submitted,
                executed>>

nonRename == <<qvars, q2vars, fvars, f2vars, rvars, svars, hvars, lvars,
               xvars, ovars, cvars, gvars, mvars, kvars, submitted, executed>>

nonReceive == <<fvars, f2vars, rvars, svars, hvars, lvars, ovars, cvars,
                nvars, gvars, mvars, kvars>>

nonArchive == <<qvars, q2vars, fvars, f2vars, rvars, svars, hvars, lvars,
                xvars, ovars, cvars, nvars, mvars, kvars, submitted,
                executed>>

nonLevels == <<qvars, q2vars, fvars, f2vars, rvars, svars, hvars, lvars,
               xvars, ovars, cvars, nvars, gvars, kvars, submitted, executed>>

nonMutex == <<qvars, q2vars, fvars, f2vars, rvars, svars, hvars, lvars,
              xvars, ovars, cvars, nvars, gvars, mvars, submitted, executed>>

vars == <<qvars, q2vars, fvars, f2vars, rvars, svars, hvars, lvars, xvars,
          ovars, cvars, nvars, gvars, mvars, kvars, submitted, executed>>

Jobs == 1..MaxJobs

Range(s) == {s[i] : i \in 1..Len(s)}

Occurrences(s, x) == Cardinality({i \in 1..Len(s) : s[i] = x})

IsPrefix(s, t) == Len(s) <= Len(t) /\ \A i \in 1..Len(s) : s[i] = t[i]

(***************************************************************************)
(* queue.go                                                                *)
(***************************************************************************)

\* newQueue: the fields after construction, run() parked in its select.
newQueue(limit) ==
    /\ ConcurrencyLimit = limit
    /\ buffer = <<>>
    /\ count = 0
    /\ suspended = FALSE
    /\ stopped = FALSE
    /\ wg = 0
    /\ runPc = "select"
    /\ wk = [j \in Jobs |-> "none"]

\* (mutant) the newest job is taken instead of the oldest
nextValNewest(buf) == buf[Len(buf)]

\* val := q.buffer[0]
nextVal(buf) == buf[1]

\* q.buffer = q.buffer[1:]
restBuffer(buf) == Tail(buf)

\* (mutant) the dispatch loop keeps one worker slot unused
canDispatchBelow(buf, cnt, susp, stp) ==
    /\ (cnt + 1 < ConcurrencyLimit \/ ConcurrencyLimit = 0)
    /\ Len(buf) > 0
    /\ ~(susp \/ stp)

\* (mutant) the dispatch loop starts one job more than the limit
canDispatchOver(buf, cnt, susp, stp) ==
    /\ (cnt <= ConcurrencyLimit \/ ConcurrencyLimit = 0)
    /\ Len(buf) > 0
    /\ ~(susp \/ stp)

\* The condition of the dispatch loop of run().
canDispatch(buf, cnt, susp, stp) ==
    /\ (cnt < ConcurrencyLimit \/ ConcurrencyLimit = 0)
    /\ Len(buf) > 0
    /\ ~(susp \/ stp)

\* The dispatch loop of run(): start a goroutine for each job it takes.
RECURSIVE dispatch(_, _, _, _, _)
dispatch(buf, cnt, susp, stp, w) ==
    IF canDispatch(buf, cnt, susp, stp)
    THEN dispatch(restBuffer(buf), cnt + 1, susp, stp,
                  [w EXCEPT ![nextVal(buf)] = "handler"])
    ELSE [buffer |-> buf, count |-> cnt, wk |-> w]

\* What run() does after one select case: return (deferred: drop the buffer
\* and take its jobs off the WaitGroup) or dispatch.
afterSelect(buf, cnt, stp, wgv, w) ==
    IF stp /\ cnt = 0
    THEN /\ runPc' = "exited"
         /\ wg' = wgv - Len(buf)
         /\ buffer' = <<>>
         /\ count' = cnt
         /\ wk' = w
    ELSE LET d == dispatch(buf, cnt, suspended, stp, w) IN
         /\ runPc' = "select"
         /\ wg' = wgv
         /\ buffer' = d.buffer
         /\ count' = d.count
         /\ wk' = d.wk

\* (mutant) the received job is put in front of the waiting ones
acceptFront(buf, v) == <<v>> \o buf

\* q.buffer = append(q.buffer, val)
accept(buf, v) == Append(buf, v)

\* pushJob: the client starts to send on q.push (unbuffered).
pushJob ==
    /\ cpc = "idle"
    /\ pushed < MaxJobs
    /\ cpc' = "push"
    /\ pushed' = pushed + 1
    /\ cval' = pushed + 1
    /\ UNCHANGED <<ConcurrencyLimit, buffer, count, suspended, stopped, wg,
                   runPc, wk, stops, waits, submitted, executed, atClose,
                   closeDone, failed, pending>>
    /\ UNCHANGED nonQueue

\* run(): case val := <-q.push; pushJob returns.
runPush ==
    /\ runPc = "select"
    /\ cpc = "push"
    /\ afterSelect(accept(buffer, cval), count, stopped, wg + 1, wk)
    /\ submitted' = Append(submitted, cval)
    /\ cpc' = "idle"
    /\ UNCHANGED <<ConcurrencyLimit, suspended, stopped, pushed, stops, waits,
                   executed, atClose, closeDone>>
    /\ UNCHANGED <<q2vars, nonQueue>>

\* run(): case val := <-q.push, the receive alone. The send of pushJob is
\* complete and pushJob returns; run() has not yet executed the case body.
runPushReceive ==
    /\ runPc = "select"
    /\ cpc = "push"
    /\ runPc' = "accept"
    /\ val' = cval
    /\ submitted' = Append(submitted, cval)
    /\ cpc' = "idle"
    /\ UNCHANGED <<ConcurrencyLimit, buffer, count, suspended, stopped, wg, wk,
                   pushed, stops, waits, executed, atClose, closeDone>>
    /\ UNCHANGED <<q2vars, nonReceive>>

\* run(): the body of the push case, q.buffer = append(q.buffer, val) and
\* q.wg.Add(1), and what follows the select.
runPushAccept ==
    /\ runPc = "accept"
    /\ afterSelect(accept(buffer, val), count, stopped, wg + 1, wk)
    /\ UNCHANGED <<ConcurrencyLimit, suspended, stopped, cpc, pushed, stops,
                   waits, submitted, executed, atClose, closeDone, val>>
    /\ UNCHANGED <<q2vars, nonReceive>>

\* pushJob called by a further goroutine while the client is at work.
pushJobConcurrent ==
    /\ pushed < MaxJobs
    /\ Cardinality(pending) < MaxProducers
    /\ pushed' = pushed + 1
    /\ pending' = pending \cup {pushed + 1}
    /\ UNCHANGED <<ConcurrencyLimit, buffer, count, suspended, stopped, wg,
                   runPc, wk, cpc, stops, waits, submitted, executed, atClose,
                   closeDone, failed, cval>>
    /\ UNCHANGED nonQueue

\* run(): case val := <-q.push, the sender being a further goroutine.
runPushConcurrent(j) ==
    /\ runPc = "select"
    /\ j \in pending
    /\ afterSelect(accept(buffer, j), count, stopped, wg + 1, wk)
    /\ submitted' = Append(submitted, j)
    /\ pending' = pending \ {j}
    /\ UNCHANGED <<ConcurrencyLimit, suspended, stopped, cpc, pushed, stops,
                   waits, executed, atClose, closeDone, failed, cval>>
    /\ UNCHANGED nonQueue

\* (mutant) the pop is sent only after a handler that succeeded
deferredIfOk(ok) == IF ok THEN "pop" ELSE "end"

\* The deferred function of a job's goroutine runs whatever the handler did:
\* q.pop <- struct{}{} comes next.
deferred(ok) == "pop"

\* The goroutine of a job calls q.Handler(val); the handler returns, after an
\* error (ok = FALSE) or not.
handler(j, ok) ==
    /\ wk[j] = "handler"
    /\ wk' = [wk EXCEPT ![j] = deferred(ok)]
    /\ executed' = Append(executed, j)
    /\ failed' = IF ok THEN failed ELSE failed \cup {j}
    /\ UNCHANGED <<ConcurrencyLimit, buffer, count, suspended, stopped, wg,
                   runPc, cpc, pushed, stops, waits, submitted, atClose,
                   closeDone, pending, cval>>
    /\ UNCHANGED nonQueue

\* Deferred q.pop <- struct{}{} of a job's goroutine, received by run():
\* case <-q.pop.
runPop(j) ==
    /\ runPc = "select"
    /\ wk[j] = "pop"
    /\ afterSelect(buffer, count - 1, stopped, wg, [wk EXCEPT ![j] = "done"])
    /\ UNCHANGED <<ConcurrencyLimit, suspended, stopped, cpc, pushed, stops,
                   waits, submitted, executed, atClose, closeDone>>
    /\ UNCHANGED <<q2vars, nonQueue>>

\* Deferred q.wg.Done() of a job's goroutine.
wgDone(j) ==
    /\ wk[j] = "done"
    /\ wk' = [wk EXCEPT ![j] = "end"]
    /\ wg' = wg - 1
    /\ UNCHANGED <<ConcurrencyLimit, buffer, count, suspended, stopped, runPc,
                   cpc, pushed, stops, waits, submitted, executed, atClose,
                   closeDone>>
    /\ UNCHANGED <<q2vars, nonQueue>>

\* stopQueue: the client starts to send on q.stop (unbuffered).
stopQueue ==
    /\ cpc = "idle"
    /\ stops < MaxStops
    /\ cpc' = "stop"
    /\ atClose' = IF stops = 0 THEN submitted ELSE atClose
    /\ UNCHANGED <<ConcurrencyLimit, buffer, count, suspended, stopped, wg,
                   runPc, wk, pushed, stops, waits, submitted, executed,
                   closeDone>>
    /\ UNCHANGED <<q2vars, nonQueue>>

\* run(): case <-q.stop; stopQueue returns.
runStop ==
    /\ runPc = "select"
    /\ cpc = "stop"
    /\ stopped' = TRUE
    /\ afterSelect(buffer, count, TRUE, wg, wk)
    /\ cpc' = "idle"
    /\ stops' = stops + 1
    /\ UNCHANGED <<ConcurrencyLimit, suspended, pushed, waits, submitted,
                   executed, atClose, closeDone>>
    /\ UNCHANGED <<q2vars, nonQueue>>

\* wait: the client calls q.wg.Wait().
wait ==
    /\ cpc = "idle"
    /\ waits < MaxWaits
    /\ cpc' = "wait"
    /\ UNCHANGED <<ConcurrencyLimit, buffer, count, suspended, stopped, wg,
                   runPc, wk, pushed, stops, waits, submitted, executed,
                   atClose, closeDone>>
    /\ UNCHANGED <<q2vars, nonQueue>>

\* q.wg.Wait() returns once the counter is zero.
waitReturn ==
    /\ cpc = "wait"
    /\ wg = 0
    /\ cpc' = "idle"
    /\ waits' = waits + 1
    /\ closeDone' = (closeDone \/ stops > 0)
    /\ UNCHANGED <<ConcurrencyLimit, buffer, count, suspended, stopped, wg,
                   runPc, wk, pushed, stops, submitted, executed, atClose>>
    /\ UNCHANGED <<q2vars, nonQueue>>



(***************************************************************************)
(* utils.go, transporters.go: the rotating file sink                       *)
(***************************************************************************)
MaxLines == 5       \* lines logged in one run
MaxInits == 3       \* Init calls on the sink in one run
MaxRotateLines == 2 \* largest RotateLines explored
MaxRotations == 4   \* largest Rotations explored (0 = unlimited)
ByteLimit == 3      \* the RotateBytes explored besides 0
QueueCapacity == 1024

Lines == 1..MaxLines

\* Archive sets found on disk when the run starts; the archive with index i
\* holds the single earlier line -i.
InitialArchives == {{}, {1}, {2, 3}, {1, 2, 3}}

\* Name of renameAll's temporary file; archives are named by their index.
tmp == 0

Min(a, b) == IF a < b THEN a ELSE b

Max(a, b) == IF a > b THEN a ELSE b

\* len of the string logToString returns for an entry.
lineBytes(e) == 1 + (e % 2)

RECURSIVE fileSize(_)
fileSize(ls) == IF ls = <<>> THEN 0 ELSE lineBytes(Head(ls)) + fileSize(Tail(ls))

\* (mutant) Init starts the line counter at zero
countLinesZero(ls) == 0

\* countLines: number of '\n' in the file.
countLines(ls) == Len(ls)

\* fileExists(path) for an archive index.
fileExists(fs, n) == n \in DOMAIN fs

\* os.Rename(start, dest): dest is replaced when it exists.
osRename(fs, start, dest) ==
    [n \in (DOMAIN fs \ {start}) \cup {dest} |->
        IF n = dest THEN fs[start] ELSE fs[n]]

\* os.Remove of a set of archives.
osRemove(fs, gone) == [n \in DOMAIN fs \ gone |-> fs[n]]

\* The set filenames of renameAll: created empty and never added to.
filenames == {}

\* reverse(A)
reverse(A) == [i \in 1..Len(A) |-> A[Len(A) + 1 - i]]

\* renameAll: the inner loop that collects in A the files to rename, from
\* start along the targets that are in filenames.
RECURSIVE collect(_, _, _, _)
collect(Dm, start, p, A) ==
    LET A2 == Append(A, p) IN
    IF Dm[p] \notin filenames
    THEN [A |-> A2, loop |-> FALSE]
    ELSE IF Dm[p] = start
         THEN [A |-> [A2 EXCEPT ![1] = tmp], loop |-> TRUE]
         ELSE collect(Dm, start, Dm[p], A2)

\* renameAll: rename(f, D[f]) for each f of A, in order.
RECURSIVE renameEach(_, _, _, _)
renameEach(fs, clob, Dm, A) ==
    IF A = <<>>
    THEN [fs |-> fs, clob |-> clob]
    ELSE LET f == Head(A) IN
         renameEach(osRename(fs, f, Dm[f]),
                    IF fileExists(fs, Dm[f]) THEN clob \cup {Dm[f]} ELSE clob,
                    Dm, Tail(A))

\* (mutant) index+1 > Rotations
evictAbove(index) == Rotations > 0 /\ index + 1 > Rotations

\* (mutant) index > Rotations
evictLate(index) == Rotations > 0 /\ index > Rotations

\* rotateArchives: the archives it removes (index+1 >= Rotations).
evict(index) == Rotations > 0 /\ index + 1 >= Rotations

\* rotateArchives: the map renames, every kept archive N to N+1.
renamesOf(fs) == [n \in {i \in DOMAIN fs : ~evict(i)} |-> n + 1]

\* (mutant) t.flines > t.RotateLines
needRotateAbove(size, lines) ==
    \/ RotateBytes > 0 /\ size >= RotateBytes
    \/ RotateLines > 0 /\ lines > RotateLines

\* The threshold check of the handler after a write.
needRotate(size, lines) ==
    \/ RotateBytes > 0 /\ size >= RotateBytes
    \/ RotateLines > 0 /\ lines >= RotateLines

\* The guard at the top of rotate().
rotateSkips(size, lines) ==
    \/ RotateBytes > 0 /\ size = 0
    \/ RotateLines > 0 /\ lines = 0

\* addJob of the sink's queue: the job is appended behind the waiting ones.
addJob(q, e) == Append(q, e)

\* (mutant) close returns as soon as no job waits
drainedBuffer == fq = <<>>

\* close of the sink's queue returns when every accepted job has been executed.
drained == fq = <<>> /\ wpc = "idle"

\* (mutant) the file is opened with O_TRUNC
openFileTrunc(ls) == <<>>

\* os.OpenFile(t.Path, O_RDWR|O_CREATE|O_APPEND): the content is kept and
\* writes go to the end.
openFile(ls) == ls

\* FileTransporter.Init
fileInit ==
    /\ ppc \in {"new", "closed"}
    /\ inits < MaxInits
    /\ fileOpen' = TRUE
    /\ live' = openFile(live)
    /\ fsize' = IF RotateBytes > 0 THEN fileSize(live) ELSE 0
    /\ flines' = IF RotateLines > 0 THEN countLines(live) ELSE 0
    /\ closed' = FALSE
    /\ fq' = <<>>
    /\ ppc' = "open"
    /\ inits' = inits + 1
    /\ UNCHANGED <<RotateBytes, RotateLines, Rotations, arch, wpc, D,
                   todo, moved, gzbuf, logged, rotations, clobbered, evicted,
                   arch0, live0, submitted, executed>>
    /\ UNCHANGED <<f2vars, rvars, nonFile>>

\* FileTransporter.Transport
Transport ==
    /\ ppc = "open"
    /\ logged < MaxLines
    /\ Len(fq) < QueueCapacity
    /\ logged' = logged + 1
    /\ IF closed
       THEN UNCHANGED <<fq, submitted>>
       ELSE /\ fq' = addJob(fq, logged + 1)
            /\ submitted' = Append(submitted, logged + 1)
    /\ UNCHANGED <<RotateBytes, RotateLines, Rotations, fileOpen, fsize, flines,
                   closed, live, arch, wpc, D, todo, moved, gzbuf, ppc, inits,
                   rotations, clobbered, evicted, arch0, live0, executed>>
    /\ UNCHANGED <<f2vars, rvars, nonFile>>

\* FileTransporter.Close: t.closed = true, then t.queue.close() is entered.
Close ==
    /\ ppc = "open"
    /\ closed' = TRUE
    /\ ppc' = "closing"
    /\ UNCHANGED <<RotateBytes, RotateLines, Rotations, fileOpen, fsize, flines,
                   fq, live, arch, wpc, D, todo, moved, gzbuf, logged, inits,
                   rotations, clobbered, evicted, arch0, live0, submitted,
                   executed>>
    /\ UNCHANGED <<f2vars, rvars, nonFile>>

\* FileTransporter.Close: t.queue.close() has returned, t.file.Close().
closeReturn ==
    /\ ppc = "closing"
    /\ drained
    /\ fileOpen' = FALSE
    /\ ppc' = "closed"
    /\ UNCHANGED <<RotateBytes, RotateLines, Rotations, fsize, flines, closed,
                   fq, live, arch, wpc, D, todo, moved, gzbuf, logged, inits,
                   rotations, clobbered, evicted, arch0, live0, submitted,
                   executed>>
    /\ UNCHANGED <<f2vars, rvars, nonFile>>

\* The handler of runQueue: write the entry, count it, rotate if a threshold
\* is reached. rotate() itself continues in the actions below.
fileHandler ==
    /\ wpc = "idle"
    /\ fq # <<>>
    /\ LET e == Head(fq)
           size == IF RotateBytes > 0 THEN fsize + lineBytes(e) ELSE fsize
           lines == IF RotateLines > 0 THEN flines + 1 ELSE flines
           rot == needRotate(size, lines) /\ ~rotateSkips(size, lines)
       IN /\ fq' = Tail(fq)
          /\ live' = Append(live, e)
          /\ executed' = Append(executed, e)
          /\ fsize' = size
          /\ flines' = lines
          /\ wpc' = IF rot THEN "loop" ELSE "idle"
          /\ rotations' = IF rot THEN rotations + 1 ELSE rotations
    /\ UNCHANGED <<RotateBytes, RotateLines, Rotations, fileOpen, closed, arch,
                   D, todo, moved, gzbuf, ppc, logged, inits, clobbered,
                   evicted, arch0, live0, submitted>>
    /\ UNCHANGED <<f2vars, rvars, nonFile>>

\* rotate(): one turn of "rotate archives while <prefix>.1.gz exists"; when it
\* exists, rotateArchives removes the archives at the limit, builds the map
\* renames and enters renameAll.
rotateLoop ==
    /\ wpc = "loop"
    /\ IF fileExists(arch, 1)
       THEN LET gone == {i \in DOMAIN arch : evict(i)}
                kept == osRemove(arch, gone)
            IN /\ arch' = kept
               /\ evicted' = evicted \cup UNION {Range(arch[i]) : i \in gone}
               /\ D' = renamesOf(arch)
               /\ todo' = DOMAIN renamesOf(arch)
               /\ moved' = {}
               /\ wpc' = "rename"
       ELSE /\ wpc' = "open"
            /\ UNCHANGED <<arch, evicted, D, todo, moved>>
    /\ UNCHANGED <<RotateBytes, RotateLines, Rotations, fileOpen, fsize, flines,
                   closed, fq, live, gzbuf, ppc, logged, inits, rotations,
                   clobbered, arch0, live0, submitted, executed>>
    /\ UNCHANGED <<f2vars, rvars, nonFile>>

\* renameAll: one iteration of "for start := range D", the map being visited
\* in any order.
renameAll(start) ==
    /\ wpc = "rename"
    /\ start \in todo
    /\ todo' = todo \ {start}
    /\ IF start \in moved
       THEN UNCHANGED <<arch, D, moved, clobbered>>
       ELSE LET c == collect(D, start, start, <<>>)
                Dm == IF c.loop
                      THEN [n \in DOMAIN D \cup {tmp} |->
                               IF n = tmp THEN D[start] ELSE D[n]]
                      ELSE D
                fs1 == IF c.loop THEN osRename(arch, start, tmp) ELSE arch
                r == renameEach(fs1, clobbered, Dm, reverse(c.A))
            IN /\ arch' = r.fs
               /\ clobbered' = r.clob
               /\ D' = Dm
               /\ moved' = moved \cup Range(c.A)
                                 \cup (IF c.loop THEN {start} ELSE {})
    /\ UNCHANGED <<RotateBytes, RotateLines, Rotations, fileOpen, fsize, flines,
                   closed, fq, live, wpc, gzbuf, ppc, logged, inits, rotations,
                   evicted, arch0, live0, submitted, executed>>
    /\ UNCHANGED <<f2vars, rvars, nonFile>>

\* renameAll returns nil, rotateArchives returns, rotate() loops.
renameAllReturn ==
    /\ wpc = "rename"
    /\ todo = {}
    /\ wpc' = "loop"
    /\ UNCHANGED <<RotateBytes, RotateLines, Rotations, fileOpen, fsize, flines,
                   closed, fq, live, arch, D, todo, moved, gzbuf, ppc, logged,
                   inits, rotations, clobbered, evicted, arch0, live0,
                   submitted, executed>>
    /\ UNCHANGED <<f2vars, rvars, nonFile>>

\* rotate(): os.OpenFile(newArchive, O_WRONLY|O_CREATE|O_TRUNC), gzip.NewWriter.
rotateOpen ==
    /\ wpc = "open"
    /\ arch' = [n \in DOMAIN arch \cup {1} |-> IF n = 1 THEN <<>> ELSE arch[n]]
    /\ gzbuf' = <<>>
    /\ wpc' = "copy"
    /\ UNCHANGED <<RotateBytes, RotateLines, Rotations, fileOpen, fsize, flines,
                   closed, fq, live, D, todo, moved, ppc, logged, inits,
                   rotations, clobbered, evicted, arch0, live0, submitted,
                   executed>>
    /\ UNCHANGED <<f2vars, rvars, nonFile>>

\* rotate(): t.file.Seek(0), io.Copy(w, t.file). The gzip writer passes on to
\* the archive what its compressor has emitted so far (flushed lines) and
\* keeps the rest in memory until it is closed.
rotateCopy(flushed) ==
    /\ wpc = "copy"
    /\ flushed \in 0..Len(live)
    /\ arch' = [arch EXCEPT ![1] = SubSeq(live, 1, flushed)]
    /\ gzbuf' = SubSeq(live, flushed + 1, Len(live))
    /\ wpc' = "truncate"
    /\ UNCHANGED <<RotateBytes, RotateLines, Rotations, fileOpen, fsize, flines,
                   closed, fq, live, D, todo, moved, ppc, logged, inits,
                   rotations, clobbered, evicted, arch0, live0, submitted,
                   executed>>
    /\ UNCHANGED <<f2vars, rvars, nonFile>>

\* rotate(): t.file.Truncate(0), t.fsize = 0, t.flines = 0.
rotateTruncate ==
    /\ wpc = "truncate"
    /\ live' = <<>>
    /\ fsize' = 0
    /\ flines' = 0
    /\ wpc' = "gzclose"
    /\ UNCHANGED <<RotateBytes, RotateLines, Rotations, fileOpen, closed, fq,
                   arch, D, todo, moved, gzbuf, ppc, logged, inits, rotations,
                   clobbered, evicted, arch0, live0, submitted, executed>>
    /\ UNCHANGED <<f2vars, rvars, nonFile>>

\* rotate(): the deferred w.Close() writes what the gzip writer still holds;
\* rotate() and the handler return.
rotateGzClose ==
    /\ wpc = "gzclose"
    /\ arch' = [arch EXCEPT ![1] = arch[1] \o gzbuf]
    /\ gzbuf' = <<>>
    /\ wpc' = "idle"
    /\ UNCHANGED <<RotateBytes, RotateLines, Rotations, fileOpen, fsize, flines,
                   closed, fq, live, D, todo, moved, ppc, logged, inits,
                   rotations, clobbered, evicted, arch0, live0, submitted,
                   executed>>
    /\ UNCHANGED <<f2vars, rvars, nonFile>>

(***************************************************************************)
(* transporters.go: FileTransporter, I/O errors                            *)
(***************************************************************************)
MaxFaults == 2      \* I/O errors in one run

\* FileTransporter.showError: the error is written to the console unless
\* SuppressErrors is set.
fileShowError ==
    /\ failedAt' = Append(failedAt, [at |-> now, init |-> inits])
    /\ shownAt' = IF ~SuppressErrors
                  THEN Append(shownAt, [at |-> now, init |-> inits])
                  ELSE shownAt

\* The sink as it is when rotateArchives returns an error.
failure ==
    <<[live |-> live, arch |-> arch, fsize |-> fsize, flines |-> flines,
       rotations |-> rotations]>>

\* The handler of runQueue, t.file.WriteString returning an error:
\* t.showError(err), return.
writeFail ==
    /\ wpc = "idle"
    /\ fq # <<>>
    /\ Len(failedAt) < MaxFaults
    /\ fq' = Tail(fq)
    /\ executed' = Append(executed, Head(fq))
    /\ wfailed' = wfailed \cup {Head(fq)}
    /\ fileShowError
    /\ UNCHANGED <<RotateBytes, RotateLines, Rotations, fileOpen, fsize, flines,
                   closed, live, arch, wpc, D, todo, moved, gzbuf, ppc, logged,
                   inits, rotations, clobbered, evicted, arch0, live0,
                   submitted, shiftErr, SuppressErrors, now, nonFile>>

\* rotate(): rotateArchives returns the error of ioutil.ReadDir;
\* t.showError(err), break.
rotateArchivesFail ==
    /\ wpc = "loop"
    /\ fileExists(arch, 1)
    /\ Len(failedAt) < MaxFaults
    /\ shiftErr' = failure
    /\ fileShowError
    /\ wpc' = "open"
    /\ UNCHANGED <<RotateBytes, RotateLines, Rotations, fileOpen, fsize, flines,
                   closed, fq, live, arch, D, todo, moved, gzbuf, ppc, logged,
                   inits, rotations, clobbered, evicted, arch0, live0,
                   submitted, executed, wfailed, SuppressErrors, now, nonFile>>

\* renameAll: os.Rename(start, D[start]) returns an error, renameAll and
\* rotateArchives return it; rotate(): t.showError(err), break.
renameAllFail(start) ==
    /\ wpc = "rename"
    /\ start \in todo
    /\ start \notin moved
    /\ Len(failedAt) < MaxFaults
    /\ shiftErr' = failure
    /\ fileShowError
    /\ wpc' = "open"
    /\ UNCHANGED <<RotateBytes, RotateLines, Rotations, fileOpen, fsize, flines,
                   closed, fq, live, arch, D, todo, moved, gzbuf, ppc, logged,
                   inits, rotations, clobbered, evicted, arch0, live0,
                   submitted, executed, wfailed, SuppressErrors, now, nonFile>>

(***************************************************************************)
(* transporters.go: ServerTransporter                                      *)
(***************************************************************************)
MaxEntries == 4     \* entries logged to a remote sink in one run

\* Values of Type / typ and of URL / url: empty or not.
Types == {"", "app"}
URLs == {"", "http://logs"}

MaxTicks == 5       \* clock ticks in one run
CoolDown == 2       \* 10*int64(time.Minute), in units of five minutes

\* now() at the start of a run: time.Now().UnixNano() is far more than ten
\* minutes after the zero of the clock.
StartTime == CoolDown + 1

\* (mutant) every error is shown
mayShowAlways(last, t) == TRUE

\* The throttle of ServerTransporter.showError.
mayShow(last, t) == last + CoolDown < t

\* (mutant) Init checks neither parameter
initErrorNone(ty, u) == ""

\* ServerTransporter.Init: the error returned for t.Type and t.URL, "" for
\* none.
initError(ty, u) ==
    IF ty = "" THEN "empty log type"
    ELSE IF u = "" THEN "empty url"
    ELSE ""

\* ServerTransporter.Init
serverInit ==
    /\ spc \in {"new", "closed"}
    /\ sinits < MaxInits
    /\ initErr' = initError(Type, URL)
    /\ IF initError(Type, URL) # ""
       THEN UNCHANGED <<sclosed, sq, lastErrorShown, spc, sinits>>
       ELSE /\ sclosed' = FALSE
            /\ sq' = <<>>
            /\ lastErrorShown' = 0
            /\ spc' = "open"
            /\ sinits' = sinits + 1
    /\ UNCHANGED <<Type, URL, lastRes, lastCalled, slogged, rvars, nonServer>>

\* ServerTransporter.Transport
serverTransport ==
    /\ spc = "open"
    /\ slogged < MaxEntries
    /\ Len(sq) < QueueCapacity
    /\ slogged' = slogged + 1
    /\ sq' = IF sclosed THEN sq ELSE addJob(sq, slogged + 1)
    /\ UNCHANGED <<Type, URL, initErr, lastRes, lastCalled, lastErrorShown,
                   sclosed, spc, sinits, rvars, nonServer>>

\* What a request can end in: err, an error of json.Marshal, NewRequest or
\* client.Do; otherwise the status of the response and its body: "unreadable"
\* (ReadAll fails), "invalid" (Unmarshal fails), "empty" (no error named),
\* "named" (an error document naming an error).
Responses ==
    {[err |-> TRUE, status |-> 0, body |-> "empty"]}
    \cup {[err |-> FALSE, status |-> st, body |-> "empty"] : st \in {200, 304}}
    \cup {[err |-> FALSE, status |-> 500, body |-> b] :
             b \in {"unreadable", "invalid", "empty", "named"}}

\* The handler of runQueue: the requests for which it calls t.showError.
callsShowError(res) ==
    IF res.err THEN TRUE
    ELSE IF res.status < 400 THEN FALSE
    ELSE res.body # "empty"

\* The handler of ServerTransporter.runQueue for the oldest waiting entry,
\* the request ending in res.
serverHandler(res) ==
    /\ sq # <<>>
    /\ sq' = Tail(sq)
    /\ lastRes' = <<res>>
    /\ lastCalled' = callsShowError(res)
    /\ IF callsShowError(res)
       THEN /\ failedAt' = Append(failedAt, [at |-> now, init |-> sinits])
            /\ IF ~SuppressErrors /\ mayShow(lastErrorShown, now)
               THEN /\ shownAt' = Append(shownAt, [at |-> now, init |-> sinits])
                    /\ lastErrorShown' = now
               ELSE UNCHANGED <<shownAt, lastErrorShown>>
       ELSE UNCHANGED <<failedAt, shownAt, lastErrorShown>>
    /\ UNCHANGED <<Type, URL, initErr, sclosed, spc, slogged, sinits,
                   SuppressErrors, now, nonServer>>

\* ServerTransporter.Close: t.closed = true, then t.queue.close() is entered.
serverClose ==
    /\ spc = "open"
    /\ sclosed' = TRUE
    /\ spc' = "closing"
    /\ UNCHANGED <<Type, URL, initErr, lastRes, lastCalled, lastErrorShown,
                   sq, slogged, sinits, rvars, nonServer>>

\* ServerTransporter.Close: t.queue.close() has returned.
serverCloseReturn ==
    /\ spc = "closing"
    /\ sq = <<>>
    /\ spc' = "closed"
    /\ UNCHANGED <<Type, URL, initErr, lastRes, lastCalled, lastErrorShown, sq, sclosed, slogged, sinits, rvars,
                   nonServer>>

\* Five minutes pass.
tick ==
    /\ now < StartTime + MaxTicks
    /\ now' = now + 1
    /\ UNCHANGED <<SuppressErrors, shownAt, failedAt, qvars, q2vars, fvars,
                   f2vars, svars, hvars, lvars, xvars, ovars, cvars, nvars,
                   gvars, mvars, kvars, submitted, executed>>

(***************************************************************************)
(* hook.go: ServerHook                                                     *)
(***************************************************************************)
MaxBufSize == 2     \* largest BufSize explored
MaxDepth == 3       \* deepest call stack of nested Fire calls explored

\* NewServerHook: the error returned for typ and url, "" for none.
hookError(ty, u) ==
    IF ty = "" THEN "empty log type"
    ELSE IF u = "" THEN "empty url"
    ELSE ""

\* (mutant) Wait returns at once
wgWaitNone(n) == TRUE

\* h.wg.Wait() returns when the counter is zero.
wgWait(n) == n = 0

Goroutines == {"user", "worker"}

stackOf(g) == IF g = "user" THEN ustack ELSE wstack

setStack(g, st) ==
    IF g = "user"
    THEN ustack' = st /\ UNCHANGED wstack
    ELSE wstack' = st /\ UNCHANGED ustack

top(st) == st[Len(st)]

setTop(st, f) == [st EXCEPT ![Len(st)] = f]

push(st, f) == Append(st, f)

\* A frame of Fire returns: the frame is dropped; a caller waiting in
\* logrus.Error for its hooks goes on to write the message.
pop(st) ==
    LET r == SubSeq(st, 1, Len(st) - 1) IN
    IF r # <<>> /\ top(r).pc = "hooks"
    THEN setTop(r, [top(r) EXCEPT !.pc = "write"])
    ELSE r

frame(fn, pc, e, fatal) == [fn |-> fn, pc |-> pc, e |-> e, fatal |-> fatal]

\* h.nextError.Before(time.Now())
before(t1, t2) == t1 < t2

\* Where a frame goes on once sendEntry has returned: the worker to
\* h.wg.Done(), Fire to its test of the entry's level.
afterSend(f) ==
    IF f.fn = "worker" THEN [f EXCEPT !.pc = "done"] ELSE [f EXCEPT !.pc = "wait"]

\* logrus calls Fire(entry) for an entry of the logging goroutine; fatal:
\* the entry's level is PanicLevel or FatalLevel.
Fire(fatal) ==
    /\ herr = ""
    /\ ustack = <<>>
    /\ fired < MaxEntries
    /\ fired' = fired + 1
    /\ ustack' = <<frame("Fire", "rlock", fired + 1, fatal)>>
    /\ atFlush' = <<>>
    /\ fatalFired' = IF fatal THEN <<fired + 1>> ELSE <<>>
    /\ UNCHANGED <<typ, url, herr, sent, returned,
                   synchronous, installed, BufSize, hbuf, hwg, nextError, mu,
                   wstack, reports, rvars, nonHook>>

\* logrus calls Fire(entry) for an entry of a second logging goroutine, in
\* synchronous mode, where no worker exists: its call stack is wstack.
FireConcurrent(fatal) ==
    /\ herr = ""
    /\ synchronous
    /\ wstack = <<>>
    /\ fired < MaxEntries
    /\ fired' = fired + 1
    /\ wstack' = <<frame("Fire", "rlock", fired + 1, fatal)>>
    /\ UNCHANGED <<typ, url, herr, sent, returned, atFlush, fatalFired,
                   synchronous, installed, BufSize, hbuf, hwg, nextError, mu,
                   ustack, reports, rvars, nonHook>>

\* Fire: h.mu.RLock(), the entry is copied; then h.sendEntry is entered or
\* h.wg.Add(1) is done and the send on h.buf begins.
fireRLock(g) ==
    LET st == stackOf(g) IN
    /\ st # <<>>
    /\ top(st).fn = "Fire" /\ top(st).pc = "rlock"
    /\ mu.writer = "none"
    /\ mu' = [mu EXCEPT !.readers = @ + 1]
    /\ IF synchronous
       THEN /\ setStack(g, setTop(st, [top(st) EXCEPT !.pc = "send"]))
            /\ UNCHANGED hwg
       ELSE /\ setStack(g, setTop(st, [top(st) EXCEPT !.pc = "chan"]))
            /\ hwg' = hwg + 1
    /\ UNCHANGED <<typ, url, herr, fatalFired, sent, returned, atFlush,
                   synchronous, installed, BufSize, hbuf, nextError, fired,
                   reports, rvars, nonHook>>

\* Fire: h.buf <- newEntry goes through once the channel has room.
fireSend(g) ==
    LET st == stackOf(g) IN
    /\ st # <<>>
    /\ top(st).fn = "Fire" /\ top(st).pc = "chan"
    /\ Len(hbuf) < BufSize
    /\ hbuf' = Append(hbuf, top(st).e)
    /\ setStack(g, setTop(st, [top(st) EXCEPT !.pc = "wait"]))
    /\ UNCHANGED <<typ, url, herr, fatalFired, sent, returned, atFlush,
                   synchronous, installed, BufSize, hwg, nextError, mu, fired,
                   reports, rvars, nonHook>>

\* (mutant) Fire waits for no entry
fireWaitsNever(fatal) == FALSE

\* entry.Level == logrus.PanicLevel || entry.Level == logrus.FatalLevel
fireWaits(fatal) == fatal

\* Fire: h.wg.Wait() for a Panic or Fatal entry, deferred h.mu.RUnlock(),
\* return.
fireReturn(g) ==
    LET st == stackOf(g) IN
    /\ st # <<>>
    /\ top(st).fn = "Fire" /\ top(st).pc = "wait"
    /\ fireWaits(top(st).fatal) => wgWait(hwg)
    /\ mu' = [mu EXCEPT !.readers = @ - 1]
    /\ setStack(g, pop(st))
    /\ returned' = returned \cup {top(st).e}
    /\ UNCHANGED <<typ, url, herr, fatalFired, sent, atFlush,
                   synchronous, installed, BufSize, hbuf, hwg, nextError, fired,
                   reports, rvars, nonHook>>

\* sendEntry, the request ending in res. It makes the tests of the handler of
\* ServerTransporter.runQueue; when showError is called and is not throttled
\* it calls logrus.Error, which fires the hooks of the standard logger (this
\* hook among them when installed) and then writes the message.
sendEntry(g, res) ==
    LET st == stackOf(g)
        f == top(st)
        shows == ~SuppressErrors /\ before(nextError, now)
    IN
    /\ st # <<>>
    /\ f.pc = "send"
    /\ IF ~callsShowError(res)
       THEN /\ setStack(g, setTop(st, afterSend(f)))
            /\ sent' = sent \cup {f.e}
            /\ UNCHANGED <<failedAt, reports>>
       ELSE /\ failedAt' = Append(failedAt, [at |-> now, init |-> 0])
            /\ IF ~shows
               THEN /\ setStack(g, setTop(st, afterSend(f)))
                    /\ sent' = sent \cup {f.e}
                    /\ UNCHANGED reports
               ELSE IF installed
                    THEN /\ Len(st) < MaxDepth
                         /\ reports' = reports + 1
                         /\ setStack(g, push(setTop(st, [f EXCEPT !.pc = "hooks"]),
                                   frame("Fire", "rlock", 0 - (reports + 1), FALSE)))
                         /\ UNCHANGED sent
                    ELSE /\ setStack(g, setTop(st, [f EXCEPT !.pc = "write"]))
                         /\ UNCHANGED <<reports, sent>>
    /\ UNCHANGED <<typ, url, herr, fatalFired, returned, atFlush,
                   synchronous, installed, BufSize, hbuf, hwg, nextError, mu,
                   fired, SuppressErrors, now, shownAt, nonHook>>

\* showError: logrus.Error has fired the hooks and writes the message;
\* h.nextError = time.Now().Add(10 * time.Minute); sendEntry returns.
logrusWrite(g) ==
    LET st == stackOf(g) IN
    /\ st # <<>>
    /\ top(st).pc = "write"
    /\ shownAt' = Append(shownAt, [at |-> now, init |-> 0])
    /\ nextError' = now + CoolDown
    /\ setStack(g, setTop(st, afterSend(top(st))))
    /\ sent' = sent \cup {top(st).e}
    /\ UNCHANGED <<typ, url, herr, fatalFired, returned, atFlush,
                   synchronous, installed, BufSize, hbuf, hwg, mu, fired,
                   reports, SuppressErrors, now, failedAt, nonHook>>

\* worker: entry := <-h.buf, h.sendEntry(entry) is entered.
workerRecv ==
    /\ Len(wstack) = 1
    /\ top(wstack).pc = "recv"
    /\ hbuf # <<>>
    /\ hbuf' = Tail(hbuf)
    /\ wstack' = <<frame("worker", "send", Head(hbuf), FALSE)>>
    /\ UNCHANGED <<typ, url, herr, fatalFired, sent, returned, atFlush,
                   synchronous, installed, BufSize, hwg, nextError, mu, ustack,
                   fired, reports, rvars, nonHook>>

\* worker: h.wg.Done(), back to the receive.
workerDone ==
    /\ Len(wstack) = 1
    /\ top(wstack).pc = "done"
    /\ hwg' = hwg - 1
    /\ wstack' = <<frame("worker", "recv", 0, FALSE)>>
    /\ UNCHANGED <<typ, url, herr, fatalFired, sent, returned, atFlush,
                   synchronous, installed, BufSize, hbuf, nextError, mu, ustack,
                   fired, reports, rvars, nonHook>>

\* Flush is called: h.mu.Lock() announces the writer, which keeps further
\* readers out.
Flush ==
    /\ herr = ""
    /\ ustack = <<>>
    /\ mu.writer = "none"
    /\ mu' = [mu EXCEPT !.writer = "waiting"]
    /\ ustack' = <<frame("Flush", "lock", 0, FALSE)>>
    /\ atFlush' = <<returned>>
    /\ UNCHANGED <<typ, url, herr, fatalFired, sent, returned,
                   synchronous, installed, BufSize, hbuf, hwg, nextError,
                   wstack, fired, reports, rvars, nonHook>>

\* Flush: h.mu.Lock() returns once no read lock is held.
flushLock ==
    /\ ustack # <<>>
    /\ top(ustack).pc = "lock"
    /\ mu.readers = 0
    /\ mu' = [mu EXCEPT !.writer = "held"]
    /\ ustack' = <<frame("Flush", "wgwait", 0, FALSE)>>
    /\ UNCHANGED <<typ, url, herr, fatalFired, sent, returned, atFlush,
                   synchronous, installed, BufSize, hbuf, hwg, nextError,
                   wstack, fired, reports, rvars, nonHook>>

\* Flush: h.wg.Wait() returns, deferred h.mu.Unlock().
flushReturn ==
    /\ ustack # <<>>
    /\ top(ustack).pc = "wgwait"
    /\ wgWait(hwg)
    /\ mu' = [mu EXCEPT !.writer = "none"]
    /\ ustack' = <<>>
    /\ UNCHANGED <<typ, url, herr, fatalFired, sent, returned, atFlush,
                   synchronous, installed, BufSize, hbuf, hwg, nextError,
                   wstack, fired, reports, rvars, nonHook>>

(***************************************************************************)
(* transporter.go: ServerTransporter on the queue of queue.go              *)
(***************************************************************************)

\* ServerTransporter.Transport for an entry of an admitted level:
\* t.runQueue() when t.queue is nil, then t.queue.pushJob(e) begins.
oldTransport ==
    /\ tpc = "idle" /\ cpc = "idle"
    /\ pushed < MaxJobs
    /\ IF tqueue = "nil"
       THEN /\ ConcurrencyLimit' = 1
            /\ buffer' = <<>>
            /\ count' = 0
            /\ suspended' = FALSE
            /\ stopped' = FALSE
            /\ wg' = 0
            /\ runPc' = "select"
       ELSE UNCHANGED <<ConcurrencyLimit, buffer, count, suspended, stopped,
                        wg, runPc>>
    /\ tqueue' = "set"
    /\ late' = IF tqueue = "nil" /\ tcloses > 0 THEN late \cup {pushed + 1}
               ELSE late
    /\ cpc' = "push"
    /\ pushed' = pushed + 1
    /\ cval' = pushed + 1
    /\ UNCHANGED <<wk, stops, waits, submitted, executed, atClose, closeDone,
                   failed, pending, tpc, tcloses>>
    /\ UNCHANGED <<fvars, f2vars, rvars, svars, hvars, lvars, xvars, cvars,
                   nvars, gvars, mvars, kvars>>

\* ServerTransporter.Close: with t.queue nil it returns; otherwise
\* t.queue.stopQueue() begins.
oldClose ==
    /\ tpc = "idle" /\ cpc = "idle"
    /\ tcloses < MaxStops
    /\ IF tqueue = "nil"
       THEN /\ tcloses' = tcloses + 1
            /\ UNCHANGED <<cpc, atClose, tpc>>
       ELSE /\ cpc' = "stop"
            /\ atClose' = IF stops = 0 THEN submitted ELSE atClose
            /\ tpc' = "stop"
            /\ UNCHANGED tcloses
    /\ UNCHANGED <<ConcurrencyLimit, buffer, count, suspended, stopped, wg,
                   runPc, wk, pushed, stops, waits, submitted, executed,
                   closeDone, q2vars, tqueue, late>>
    /\ UNCHANGED <<fvars, f2vars, rvars, svars, hvars, lvars, xvars, cvars,
                   nvars, gvars, mvars, kvars>>

\* ServerTransporter.Close: stopQueue has returned, t.queue.wait() begins.
oldCloseWait ==
    /\ tpc = "stop" /\ cpc = "idle"
    /\ cpc' = "wait"
    /\ tpc' = "wait"
    /\ UNCHANGED <<ConcurrencyLimit, buffer, count, suspended, stopped, wg,
                   runPc, wk, pushed, stops, waits, submitted, executed,
                   atClose, closeDone, q2vars, tqueue, tcloses, late>>
    /\ UNCHANGED <<fvars, f2vars, rvars, svars, hvars, lvars, xvars, cvars,
                   nvars, gvars, mvars, kvars>>

\* ServerTransporter.Close: wait has returned, t.queue = nil.
oldCloseReturn ==
    /\ tpc = "wait" /\ cpc = "idle"
    /\ tqueue' = "nil"
    /\ tpc' = "idle"
    /\ tcloses' = tcloses + 1
    /\ UNCHANGED <<qvars, q2vars, late, submitted, executed>>
    /\ UNCHANGED <<fvars, f2vars, rvars, svars, hvars, lvars, xvars, cvars,
                   nvars, gvars, mvars, kvars>>

\* The variables of a run without a ServerTransporter of transporter.go.
NoOldServer ==
    /\ tqueue = "nil" /\ tpc = "idle" /\ tcloses = 0 /\ late = {}

(***************************************************************************)
(* transporters.go: regexName and rotateArchives on file names             *)
(***************************************************************************)
MaxIndex == 11      \* archives <prefix>.N.gz exist for N in 1..MaxIndex
MaxFiles == 3       \* files in the directory

\* A string is a sequence of characters.
digits == <<"0", "1", "2", "3", "4", "5", "6", "7", "8", "9">>

isDigit(c) == \E k \in 1..10 : digits[k] = c

\* strconv.Itoa, the %d of fmt.Sprintf.
RECURSIVE Itoa(_)
Itoa(n) == IF n < 10 THEN <<digits[n + 1]>>
           ELSE Append(Itoa(n \div 10), digits[(n % 10) + 1])

\* strconv.Atoi of a sequence of decimal digits.
RECURSIVE Atoi(_)
Atoi(ds) == IF ds = <<>> THEN 0
            ELSE 10 * Atoi(SubSeq(ds, 1, Len(ds) - 1))
                 + ((CHOOSE k \in 1..10 : digits[k] = ds[Len(ds)]) - 1)

\* strings.TrimSpace
RECURSIVE TrimSpace(_)
TrimSpace(str) ==
    IF str = <<>> THEN str
    ELSE IF Head(str) = " " THEN TrimSpace(Tail(str))
    ELSE IF str[Len(str)] = " " THEN TrimSpace(SubSeq(str, 1, Len(str) - 1))
    ELSE str

\* fmt.Sprintf("%s.%d.gz", prefix, index)
archiveName(p, index) == p \o <<".">> \o Itoa(index) \o <<".", "g", "z">>

\* regexName = (.+).(\d+).gz matches str with a characters in the first
\* group and d in the second: one arbitrary character follows each group
\* (the dots of the pattern are not escaped), then "gz".
matches(str, a, d) ==
    /\ a >= 1 /\ d >= 1
    /\ a + d + 4 <= Len(str)
    /\ \A i \in (a + 2)..(a + 1 + d) : isDigit(str[i])
    /\ str[a + d + 3] = "g"
    /\ str[a + d + 4] = "z"

\* regexName.FindStringSubmatch(name): the leftmost match, both groups
\* greedy, the first group first; <<>> when nothing matches. A match that
\* starts later extends to one that starts at the first character.
FindStringSubmatch(str) ==
    LET as == {a \in 1..Len(str) : \E d \in 1..Len(str) : matches(str, a, d)}
    IN IF as = {} THEN <<>>
       ELSE LET a == CHOOSE x \in as : \A y \in as : y <= x
                ds == {d \in 1..Len(str) : matches(str, a, d)}
                d == CHOOSE x \in ds : \A y \in ds : y <= x
            IN <<SubSeq(str, 1, a + d + 4), SubSeq(str, 1, a),
                 SubSeq(str, a + 2, a + 1 + d)>>

\* Base names of the log file.
Prefixes == {<<"a">>, <<"l", "o", "g">>}

\* Files of the directory that are no archive of the prefix p.
otherNames(p) ==
    {p, <<"b">> \o p \o <<".", "1", ".", "g", "z">>,
     p \o <<" ", ".", "1", ".", "g", "z">>}

\* The names a file of the directory can have.
names(p) == {archiveName(p, N) : N \in 1..(MaxIndex + 1)} \cup otherNames(p)

Names == UNION {names(p) : p \in Prefixes}

\* regexName applied to the names a file can have: the result of
\* FindStringSubmatch for each of them.
regexName == [str \in Names |-> FindStringSubmatch(str)]

\* rotateArchives: files, err := ioutil.ReadDir(dir)
rotateArchivesReadDir ==
    /\ apc = "start"
    /\ files' = DOMAIN adir
    /\ renames' = <<>>
    /\ removed' = {}
    /\ renamed' = {}
    /\ adir0' = adir
    /\ apc' = "loop"
    /\ UNCHANGED <<prefix, adir, stuck>>
    /\ UNCHANGED nonArchive

\* rotateArchives: one turn of the loop over files, for the file name. The
\* result of os.Remove is not looked at: a file of stuck stays.
rotateArchivesFile(name) ==
    LET groups == regexName[name]
        index == Atoi(groups[3])
    IN
    /\ apc = "loop"
    /\ name \in files
    /\ files' = files \ {name}
    /\ IF groups = <<>> \/ prefix # TrimSpace(groups[2])
       THEN UNCHANGED <<renames, removed, adir>>
       ELSE IF evict(index)
            THEN /\ removed' = removed \cup {name}
                 /\ adir' = osRemove(adir, {name} \ stuck)
                 /\ UNCHANGED renames
            ELSE /\ renames' = [n \in DOMAIN renames \cup {name} |->
                                   IF n = name THEN archiveName(prefix, index + 1)
                                   ELSE renames[n]]
                 /\ UNCHANGED <<removed, adir>>
    /\ UNCHANGED <<prefix, renamed, apc, adir0, stuck>>
    /\ UNCHANGED nonArchive

\* rotateArchives: return renameAll(renames), entered after the loop.
rotateArchivesRenameAll ==
    /\ apc = "loop"
    /\ files = {}
    /\ apc' = "rename"
    /\ UNCHANGED <<prefix, files, renames, removed, renamed, adir, adir0, stuck>>
    /\ UNCHANGED nonArchive

\* renameAll: one turn of the loop over D. The set filenames is empty, so
\* the list A is the file start alone and start is renamed to D[start].
renameAllFile(start) ==
    /\ apc = "rename"
    /\ start \in DOMAIN renames \ renamed
    /\ renamed' = renamed \cup {start}
    /\ adir' = osRename(adir, start, renames[start])
    /\ UNCHANGED <<prefix, files, renames, removed, apc, adir0, stuck>>
    /\ UNCHANGED nonArchive

\* renameAll returns nil.
renameAllNil ==
    /\ apc = "rename"
    /\ DOMAIN renames \subseteq renamed
    /\ apc' = "done"
    /\ UNCHANGED <<prefix, files, renames, removed, renamed, adir, adir0, stuck>>
    /\ UNCHANGED nonArchive

\* rotateArchives: ioutil.ReadDir fails and the error is returned; rotate
\* reports it and leaves its loop.
rotateArchivesReadDirErr ==
    /\ apc = "start"
    /\ apc' = "ReadDir"
    /\ UNCHANGED <<prefix, files, renames, removed, renamed, adir, adir0, stuck>>
    /\ UNCHANGED nonArchive

\* renameAll: os.Rename of start fails and the error is returned; rotate
\* reports it and leaves its loop.
renameAllErr(start) ==
    /\ apc = "rename"
    /\ start \in DOMAIN renames \ renamed
    /\ apc' = "Rename"
    /\ UNCHANGED <<prefix, files, renames, removed, renamed, adir, adir0, stuck>>
    /\ UNCHANGED nonArchive

\* rotate: the head of the loop, fileExists(newArchive). The loop goes on
\* into rotateArchives when <prefix>.1.gz exists and ends otherwise, also
\* when os.Stat fails (statErr).
rotateFileExists(statErr) ==
    /\ apc = "exists"
    /\ apc' = IF statErr THEN "Stat"
              ELSE IF archiveName(prefix, 1) \in DOMAIN adir THEN "start"
              ELSE "break"
    /\ UNCHANGED <<prefix, files, renames, removed, renamed, adir, adir0, stuck>>
    /\ UNCHANGED nonArchive

\* rotate: rotateArchives returned nil, the loop takes its next turn.
rotateAgain ==
    /\ apc = "done"
    /\ apc' = "exists"
    /\ UNCHANGED <<prefix, files, renames, removed, renamed, adir, adir0, stuck>>
    /\ UNCHANGED nonArchive

\* The variables of a run that does not look at file names.
NoArchives ==
    /\ prefix = <<>> /\ files = {} /\ renames = <<>> /\ removed = {}
    /\ renamed = {} /\ apc = "done" /\ adir = <<>> /\ adir0 = <<>>
    /\ stuck = {}

(***************************************************************************)
(* renameAll and renameRecursive, second version of utils.go               *)
(***************************************************************************)
MaxName == 3        \* files are named 1..MaxName, targets 1..MaxName + 1
DepthLimit == 4     \* stands for 8192, the depth renameRecursive allows

\* The empty string: fmap[file] for a file that is not a key of fmap.
NoName == 0

\* fmap[file]
target(file) == IF file \in DOMAIN fmap THEN fmap[file] ELSE NoName

\* A frame of renameRecursive(fmap, filenames, file, depth); pc "check": at
\* its start, "rename": at its os.Rename.
rframe(file, depth, pc) == [file |-> file, depth |-> depth, pc |-> pc]

\* renameRecursive returned: its frame is dropped. The caller is the loop of
\* renameAll, which looks at the error, or a frame of renameRecursive, which
\* does not (the result of the recursive call is not used).
rreturn(err) ==
    /\ rstack' = SubSeq(rstack, 1, Len(rstack) - 1)
    /\ IF Len(rstack) = 1
       THEN /\ rpc' = IF err = "" THEN "loop" ELSE "done"
            /\ rerr' = err
       ELSE UNCHANGED <<rpc, rerr>>

\* renameAll: the loop over filenames; the file is the first key that
\* ranging over fmap gives, any of its keys.
renameAllLoop ==
    /\ rpc = "loop"
    /\ IF fnames = {}
       THEN /\ rpc' = "done"
            /\ UNCHANGED rstack
       ELSE /\ \E file \in (IF DOMAIN fmap = {} THEN {NoName} ELSE DOMAIN fmap) :
                   rstack' = <<rframe(file, 0, "check")>>
            /\ rpc' = "call"
    /\ UNCHANGED <<fmap, fnames, rfs, rerr, rclob, rfails, fmap0>>
    /\ UNCHANGED nonRename

\* renameRecursive up to its os.Rename: the depth test, then the recursive
\* call for the target when the target is in filenames.
renameRecursive ==
    LET f == rstack[Len(rstack)] IN
    /\ rpc = "call"
    /\ f.pc = "check"
    /\ IF f.depth > DepthLimit
       THEN rreturn("maximum recursion depth for rotating reached")
       ELSE /\ rstack' =
                  IF target(f.file) \in fnames
                  THEN Append([rstack EXCEPT ![Len(rstack)].pc = "rename"],
                              rframe(target(f.file), f.depth + 1, "check"))
                  ELSE [rstack EXCEPT ![Len(rstack)].pc = "rename"]
            /\ UNCHANGED <<rpc, rerr>>
    /\ UNCHANGED <<fmap, fnames, rfs, rclob, rfails, fmap0>>
    /\ UNCHANGED nonRename

\* renameRecursive: os.Rename(file, fmap[file]); ok: it succeeds. It fails
\* when the file does not exist or the target is the empty string, and may
\* fail otherwise. After a success the file is deleted from fmap and
\* filenames.
renameRecursiveRename(ok) ==
    LET f == rstack[Len(rstack)]
        dest == target(f.file)
        possible == f.file \in DOMAIN rfs /\ dest # NoName
    IN
    /\ rpc = "call"
    /\ f.pc = "rename"
    /\ ok => possible
    /\ IF ok
       THEN /\ rfs' = osRename(rfs, f.file, dest)
            /\ rclob' = IF fileExists(rfs, dest) /\ dest # f.file
                        THEN rclob \cup {rfs[dest]} ELSE rclob
            /\ fmap' = [n \in DOMAIN fmap \ {f.file} |-> fmap[n]]
            /\ fnames' = fnames \ {f.file}
            /\ rreturn("")
            /\ UNCHANGED rfails
       ELSE /\ possible => rfails < MaxFaults
            /\ rfails' = IF possible THEN rfails + 1 ELSE rfails
            /\ rreturn("rename")
            /\ UNCHANGED <<rfs, rclob, fmap, fnames>>
    /\ UNCHANGED fmap0
    /\ UNCHANGED nonRename

\* The variables of a run that does not call this renameAll.
NoRename ==
    /\ fmap = <<>> /\ fnames = {} /\ rfs = <<>> /\ rstack = <<>>
    /\ rpc = "done" /\ rerr = "" /\ rclob = {} /\ rfails = 0 /\ fmap0 = <<>>

(***************************************************************************)
(* level.go, transporters.go: ConsoleTransporter                           *)
(***************************************************************************)
MaxLogs == 2        \* Transport calls on one ConsoleTransporter

\* The levels of the package (level.go: levelTrace ... levelFatal).
Levels == {"trace", "debug", "info", "warn", "error", "fatal"}

\* Values of MinLevel: none, the levels, and strings that are no level.
MinLevels == {""} \cup Levels \cup {"WARN", "warning"}

\* (mutant) a string that is no level counts as the highest level
IndexStrict(l) ==
    CASE l = "trace" -> 1 [] l = "debug" -> 2 [] l = "info" -> 3
      [] l = "warn" -> 4 [] l = "error" -> 5 [] l = "fatal" -> 6
      [] OTHER -> 7

\* Level.Index
Index(l) ==
    CASE l = "trace" -> 1 [] l = "debug" -> 2 [] l = "info" -> 3
      [] l = "warn" -> 4 [] l = "error" -> 5 [] l = "fatal" -> 6
      [] OTHER -> 0

\* ConsoleTransporter.Transport(level, msg, date): the entry is written to
\* t.Output unless level.Index() < Level(t.MinLevel).Index().
consoleTransport(level) ==
    /\ Len(called) < MaxLogs
    /\ called' = Append(called, level)
    /\ Output' = IF Index(level) < Index(MinLevel) THEN Output
                 ELSE Append(Output, level)
    /\ UNCHANGED MinLevel
    /\ UNCHANGED nonConsole

\* The variables of a run without a ConsoleTransporter of its own.
NoConsole ==
    /\ MinLevel = "" /\ Output = <<>> /\ called = <<>>

(***************************************************************************)
(* log.go Logger.Log and the older logInternal: the level filters          *)
(***************************************************************************)
MaxSinks == 2       \* transporters of one logger

\* Transport of a transporter with minimum min, for an entry of level: the
\* levels written after it. Console, file and server sink make the same
\* test, level.Index() < Level(t.MinLevel).Index().
transport(min, level, written) ==
    IF Index(level) < Index(min) THEN written ELSE Append(written, level)

\* logInternal: the loop over transports from transporter i on. It returns
\* at the first transporter with level.int() < t.minLevel().
RECURSIVE logInternalLoop(_, _, _)
logInternalLoop(i, level, g) ==
    IF i > Len(tmin) THEN g
    ELSE IF Index(level) < Index(tmin[i]) THEN g
    ELSE logInternalLoop(i + 1, level, [g EXCEPT ![i] = Append(@, level)])

\* Logger.Log(level, ...): t.Transport(level, msg, date) for every t of l.ts.
LogLevel(level) ==
    /\ impl = "Logger"
    /\ Len(logs) < MaxLogs
    /\ logs' = Append(logs, level)
    /\ got' = [i \in DOMAIN tmin |-> transport(tmin[i], level, got[i])]
    /\ UNCHANGED <<impl, tmin>>
    /\ UNCHANGED nonLevels

\* logInternal(level, ...) of the package-level logger.
logInternal(level) ==
    /\ impl = "package"
    /\ Len(logs) < MaxLogs
    /\ logs' = Append(logs, level)
    /\ got' = logInternalLoop(1, level, got)
    /\ UNCHANGED <<impl, tmin>>
    /\ UNCHANGED nonLevels

\* The variables of a run that does not look at levels.
NoLevels == impl = "" /\ tmin = <<>> /\ got = <<>> /\ logs = <<>>

(***************************************************************************)
(* log.go: Logger                                                          *)
(***************************************************************************)
MaxCalls == 2       \* CreateLogger / Init calls in one run

\* A ConsoleTransporter (no Init), a FileTransporter and a ServerTransporter.
Transporters == {"console", "file", "server"}

\* The lists of distinct transporters a caller may pass.
TsLists ==
    {ts \in UNION {[1..n -> Transporters] : n \in 0..Cardinality(Transporters)} :
        \A i, j \in 1..Len(ts) : i # j => ts[i] # ts[j]}

\* (mutant) the errors of the transporters' Init are ignored
initLoopIgnore(ts, i) == 0

\* The loop of Logger.init from index i on: the index of the first
\* transporter whose Init returns an error, 0 when the loop ends.
RECURSIVE initLoop(_, _)
initLoop(ts, i) ==
    IF i > Len(ts) THEN 0
    ELSE IF fails[ts[i]] THEN i
    ELSE initLoop(ts, i + 1)

\* Logger.init(ts...): Init is called on the transporters in order; the first
\* error is returned, l.ts = ts is reached when there was none.
init(ts) ==
    LET k == initLoop(ts, 1)
        done == IF k = 0 THEN Range(ts) ELSE {ts[i] : i \in 1..(k - 1)}
    IN
    /\ lcalls < MaxCalls
    /\ lcalls' = lcalls + 1
    /\ largs' = ts
    /\ tinits' = [t \in Transporters |->
                     IF t \in done /\ t # "console" THEN tinits[t] + 1
                     ELSE tinits[t]]
    /\ topen' = [t \in Transporters |-> topen[t] \/ (t \in done /\ t # "console")]
    /\ lret' = IF k = 0 THEN "" ELSE ts[k]
    /\ lts' = IF k = 0 THEN ts ELSE lts
    /\ UNCHANGED <<fails, tlog, llogged>>

\* CreateLogger(ts...): a new Logger, returned when init returned no error.
CreateLogger(ts) ==
    /\ lg = "nil"
    /\ init(ts)
    /\ lg' = IF initLoop(ts, 1) = 0 THEN "made" ELSE "nil"
    /\ UNCHANGED nonLogger

\* Init(ts...) on the global logger.
loggerInit(ts) ==
    /\ lg = "made"
    /\ init(ts)
    /\ UNCHANGED lg
    /\ UNCHANGED nonLogger

\* Logger.Log: Transport of every transporter of l.ts; a FileTransporter or
\* ServerTransporter that is closed returns at once.
Log ==
    /\ lg = "made"
    /\ llogged < MaxEntries
    /\ llogged' = llogged + 1
    /\ tlog' = [t \in Transporters |->
                   IF t \in Range(lts) /\ (t = "console" \/ topen[t])
                   THEN tlog[t] + 1 ELSE tlog[t]]
    /\ UNCHANGED <<lg, lts, lret, largs, lcalls, fails, tinits, topen>>
    /\ UNCHANGED nonLogger

\* Logger.Close: Close of every transporter of l.ts, l.ts = []Transporter{}.
loggerClose ==
    /\ lg = "made"
    /\ topen' = [t \in Transporters |-> topen[t] /\ t \notin Range(lts)]
    /\ lts' = <<>>
    /\ UNCHANGED <<lg, lret, largs, lcalls, fails, tinits, tlog, llogged>>
    /\ UNCHANGED nonLogger

\* The logger variables of a run that uses no logger.
NoLogger ==
    /\ lg = "nil" /\ lts = <<>> /\ lret = "" /\ largs = <<>> /\ lcalls = 0
    /\ fails = [t \in Transporters |-> FALSE]
    /\ tinits = [t \in Transporters |-> 0]
    /\ topen = [t \in Transporters |-> FALSE]
    /\ tlog = [t \in Transporters |-> 0]
    /\ llogged = 0

(***************************************************************************)
(* log.go: Logger.Log, init and Close called by several goroutines         *)
(***************************************************************************)
MaxCallers == 2     \* goroutines that use one logger

Callers == 1..MaxCallers

Sinks == 1..MaxSinks

\* The lists of distinct transporters.
SinkLists ==
    {ts \in UNION {[1..n -> Sinks] : n \in 0..MaxSinks} :
        \A i, j \in 1..Len(ts) : i # j => ts[i] # ts[j]}

\* A goroutine in no call of the logger.
idle == [op |-> "", pc |-> "idle", i |-> 0, ts |-> <<>>, e |-> 0]

\* (mutant) Lock does not wait
mutexLockFree(holder) == TRUE

\* l.mu.Lock() returns when no goroutine holds the mutex.
mutexLock(holder) == holder = 0

\* A goroutine calls Log, Init (init) with the transporters ts, or Close.
LogCall(g) ==
    /\ callers[g] = idle
    /\ entries < MaxLogs
    /\ entries' = entries + 1
    /\ callers' = [callers EXCEPT ![g] =
                      [op |-> "Log", pc |-> "lock", i |-> 0, ts |-> <<>>,
                       e |-> entries + 1]]
    /\ UNCHANGED <<lmu, cts, observed, calls>>
    /\ UNCHANGED nonMutex

InitCall(g, ts) ==
    /\ callers[g] = idle
    /\ calls < MaxCalls
    /\ calls' = calls + 1
    /\ callers' = [callers EXCEPT ![g] =
                      [op |-> "init", pc |-> "lock", i |-> 0, ts |-> ts, e |-> 0]]
    /\ UNCHANGED <<lmu, cts, observed, entries>>
    /\ UNCHANGED nonMutex

CloseCall(g) ==
    /\ callers[g] = idle
    /\ calls < MaxCalls
    /\ calls' = calls + 1
    /\ callers' = [callers EXCEPT ![g] =
                      [op |-> "Close", pc |-> "lock", i |-> 0, ts |-> <<>>,
                       e |-> 0]]
    /\ UNCHANGED <<lmu, cts, observed, entries>>
    /\ UNCHANGED nonMutex

\* l.mu.Lock() at the start of Log, init and Close; Log and Close then range
\* over l.ts, init over its argument.
lock(g) ==
    /\ callers[g].pc = "lock"
    /\ mutexLock(lmu)
    /\ lmu' = g
    /\ callers' = [callers EXCEPT ![g].pc = "loop", ![g].i = 1,
                                  ![g].ts = IF callers[g].op = "init"
                                            THEN callers[g].ts ELSE cts]
    /\ UNCHANGED <<cts, observed, entries, calls>>
    /\ UNCHANGED nonMutex

\* Log: t.Transport(level, msg, date) for the next transporter.
logTransport(g) ==
    LET c == callers[g] IN
    /\ c.op = "Log" /\ c.pc = "loop"
    /\ c.i <= Len(c.ts)
    /\ observed' = [observed EXCEPT ![c.ts[c.i]] = Append(@, c.e)]
    /\ callers' = [callers EXCEPT ![g].i = c.i + 1]
    /\ UNCHANGED <<lmu, cts, entries, calls>>
    /\ UNCHANGED nonMutex

\* init: it.Init() for the next transporter; after an error init returns.
\* Close: ct.Close() for the next transporter.
initOrClose(g, ok) ==
    LET c == callers[g] IN
    /\ c.op \in {"init", "Close"} /\ c.pc = "loop"
    /\ c.i <= Len(c.ts)
    /\ c.op = "Close" => ok
    /\ callers' = [callers EXCEPT ![g].i = c.i + 1,
                                  ![g].pc = IF ok THEN "loop" ELSE "failed"]
    /\ UNCHANGED <<lmu, cts, observed, entries, calls>>
    /\ UNCHANGED nonMutex

\* The end of the call: init assigns l.ts = ts when no Init failed, Close
\* l.ts = []Transporter{}; deferred l.mu.Unlock().
unlock(g) ==
    LET c == callers[g] IN
    /\ \/ c.pc = "loop" /\ c.i > Len(c.ts)
       \/ c.pc = "failed"
    /\ cts' = IF c.pc = "failed" THEN cts
              ELSE IF c.op = "init" THEN c.ts
              ELSE IF c.op = "Close" THEN <<>>
              ELSE cts
    /\ lmu' = 0
    /\ callers' = [callers EXCEPT ![g] = idle]
    /\ UNCHANGED <<observed, entries, calls>>
    /\ UNCHANGED nonMutex

\* The variables of a run without goroutines sharing a logger.
NoCallers ==
    /\ lmu = 0 /\ cts = <<>> /\ callers = <<>> /\ observed = <<>>
    /\ entries = 0 /\ calls = 0

\* The hook variables of a run that has no hook.
NoHook ==
    /\ typ = "" /\ url = "" /\ herr = hookError("", "")
    /\ synchronous = TRUE /\ installed = FALSE /\ BufSize = 1
    /\ hbuf = <<>> /\ hwg = 0 /\ nextError = 0
    /\ mu = [readers |-> 0, writer |-> "none"]
    /\ ustack = <<>> /\ wstack = <<>> /\ fired = 0 /\ reports = 0
    /\ sent = {} /\ returned = {} /\ atFlush = <<>> /\ fatalFired = <<>>

\* A ServerTransporter before its first Init.
newServer ==
    /\ initErr = "" /\ lastRes = <<>> /\ lastCalled = FALSE
    /\ lastErrorShown = 0 /\ sq = <<>> /\ sclosed = FALSE
    /\ spc = "new" /\ slogged = 0 /\ sinits = 0

\* The server sink variables of a run that has no server sink.
NoServer ==
    /\ Type = "" /\ URL = ""
    /\ newServer

\* The file variables of a run that has no file sink.
\* The file sink not in use, whatever t.Rotations is.
noFileSink ==
    /\ RotateBytes = 0 /\ RotateLines = 0
    /\ fileOpen = FALSE /\ fsize = 0 /\ flines = 0 /\ closed = FALSE
    /\ fq = <<>> /\ live = <<>> /\ arch = <<>> /\ wpc = "idle"
    /\ D = <<>> /\ todo = {} /\ moved = {} /\ gzbuf = <<>>
    /\ ppc = "new" /\ logged = 0 /\ inits = 0 /\ rotations = 0
    /\ clobbered = {} /\ evicted = {} /\ arch0 = <<>> /\ live0 = <<>>
    /\ wfailed = {} /\ shiftErr = <<>>

NoFile == Rotations = 0 /\ noFileSink

\* The queue variables of a run that uses no queue of queue.go directly.
NoQueue ==
    /\ newQueue(1)
    /\ cpc = "idle" /\ pushed = 0 /\ stops = 0 /\ waits = 0
    /\ atClose = <<>> /\ closeDone = FALSE
    /\ failed = {} /\ pending = {} /\ cval = 0

\* run() holds no received value.
NoReceive == val = 0

\* The clock and the error reports of a run in which no sink reports.
NoReport ==
    /\ SuppressErrors = FALSE /\ now = 0 /\ shownAt = <<>> /\ failedAt = <<>>

InitQueue ==
    /\ NoFile
    /\ NoReport
    /\ NoServer
    /\ NoLogger
    /\ NoOldServer
    /\ NoConsole
    /\ NoRename
    /\ NoReceive
    /\ NoArchives
    /\ NoLevels
    /\ NoCallers
    /\ NoHook
    /\ failed = {}
    /\ pending = {}
    /\ cval = 0
    /\ \E limit \in 0..MaxLimit : newQueue(limit)
    /\ cpc = "idle"
    /\ pushed = 0
    /\ stops = 0
    /\ waits = 0
    /\ submitted = <<>>
    /\ executed = <<>>
    /\ atClose = <<>>
    /\ closeDone = FALSE

NextQueue ==
    \/ pushJob
    \/ runPush
    \/ \E j \in Jobs : handler(j, TRUE)
    \/ \E j \in Jobs : runPop(j)
    \/ \E j \in Jobs : wgDone(j)
    \/ stopQueue
    \/ runStop
    \/ wait
    \/ waitReturn

SpecQueue == InitQueue /\ [][NextQueue]_vars

\* The Go scheduler runs every goroutine that can take a step: run() takes a
\* value offered on q.push or q.pop, a handler that was started returns, the
\* deferred calls of a job's goroutine are made.
FairQueue ==
    /\ WF_vars(runPush)
    /\ \A j \in Jobs : WF_vars(handler(j, TRUE))
    /\ \A j \in Jobs : WF_vars(runPop(j))
    /\ \A j \in Jobs : WF_vars(wgDone(j))

FairSpecQueue == SpecQueue /\ FairQueue

\* The queue with handlers that may fail.
NextQueueFail ==
    \/ NextQueue
    \/ \E j \in Jobs : handler(j, FALSE)

SpecQueueFail == InitQueue /\ [][NextQueueFail]_vars

\* The queue with run() taking a pushed value in two steps: pushJob returns
\* at the receive, the case body runs later.
NextQueueSteps ==
    \/ pushJob
    \/ runPushReceive
    \/ runPushAccept
    \/ \E j \in Jobs : handler(j, TRUE)
    \/ \E j \in Jobs : runPop(j)
    \/ \E j \in Jobs : wgDone(j)
    \/ stopQueue
    \/ runStop
    \/ wait
    \/ waitReturn

SpecQueueSteps == InitQueue /\ [][NextQueueSteps]_vars

\* The queue with further goroutines that call pushJob.
NextProducers ==
    \/ pushJob
    \/ runPush
    \/ pushJobConcurrent
    \/ \E j \in Jobs : runPushConcurrent(j)
    \/ \E j \in Jobs : handler(j, TRUE)
    \/ \E j \in Jobs : runPop(j)
    \/ \E j \in Jobs : wgDone(j)
    \/ stopQueue
    \/ runStop

SpecProducers == InitQueue /\ [][NextProducers]_vars

InitFile ==
    /\ NoQueue
    /\ NoReport
    /\ NoServer
    /\ NoLogger
    /\ NoOldServer
    /\ NoConsole
    /\ NoRename
    /\ NoReceive
    /\ NoArchives
    /\ NoLevels
    /\ NoCallers
    /\ NoHook
    /\ wfailed = {} /\ shiftErr = <<>>
    /\ RotateBytes \in {0, ByteLimit}
    /\ RotateLines \in 0..MaxRotateLines
    /\ Rotations \in 0..MaxRotations
    /\ \E S \in InitialArchives : arch = [n \in S |-> <<0 - n>>]
    /\ live \in {<<>>, <<0>>}
    /\ arch0 = arch
    /\ live0 = live
    /\ fileOpen = FALSE /\ fsize = 0 /\ flines = 0 /\ closed = FALSE
    /\ fq = <<>> /\ wpc = "idle"
    /\ D = <<>> /\ todo = {} /\ moved = {} /\ gzbuf = <<>>
    /\ ppc = "new" /\ logged = 0 /\ inits = 0 /\ rotations = 0
    /\ clobbered = {} /\ evicted = {}
    /\ submitted = <<>> /\ executed = <<>>

NextFile ==
    \/ fileInit
    \/ Transport
    \/ Close
    \/ closeReturn
    \/ fileHandler
    \/ rotateLoop
    \/ \E start \in 0..(MaxLines + 4) : renameAll(start)
    \/ renameAllReturn
    \/ rotateOpen
    \/ \E flushed \in 0..MaxLines : rotateCopy(flushed)
    \/ rotateTruncate
    \/ rotateGzClose

SpecFile == InitFile /\ [][NextFile]_vars

\* The file sink with I/O errors, between one Init and its Close.
InitFault ==
    /\ NoQueue
    /\ NoServer
    /\ NoLogger
    /\ NoOldServer
    /\ NoConsole
    /\ NoRename
    /\ NoReceive
    /\ NoArchives
    /\ NoLevels
    /\ NoCallers
    /\ NoHook
    /\ RotateBytes = 0
    /\ RotateLines \in 1..MaxRotateLines
    /\ Rotations \in {0, MaxRotations}
    /\ \E S \in InitialArchives : arch = [n \in S |-> <<0 - n>>]
    /\ live = <<>>
    /\ arch0 = arch
    /\ live0 = live
    /\ fileOpen = FALSE /\ fsize = 0 /\ flines = 0 /\ closed = FALSE
    /\ fq = <<>> /\ wpc = "idle"
    /\ D = <<>> /\ todo = {} /\ moved = {} /\ gzbuf = <<>>
    /\ ppc = "new" /\ logged = 0 /\ inits = 0 /\ rotations = 0
    /\ clobbered = {} /\ evicted = {}
    /\ wfailed = {} /\ shiftErr = <<>>
    /\ SuppressErrors \in BOOLEAN
    /\ now = StartTime
    /\ shownAt = <<>>
    /\ failedAt = <<>>
    /\ submitted = <<>> /\ executed = <<>>

NextFault ==
    \/ fileInit
    \/ Transport
    \/ fileHandler
    \/ writeFail
    \/ rotateLoop
    \/ rotateArchivesFail
    \/ \E start \in 0..(MaxLines + 4) : renameAll(start)
    \/ \E start \in 0..(MaxLines + 4) : renameAllFail(start)
    \/ renameAllReturn
    \/ rotateOpen
    \/ \E flushed \in 0..MaxLines : rotateCopy(flushed)
    \/ rotateTruncate
    \/ rotateGzClose

SpecFault == InitFault /\ [][NextFault]_vars

InitServer ==
    /\ NoQueue
    /\ NoFile
    /\ NoHook
    /\ NoLogger
    /\ NoOldServer
    /\ NoConsole
    /\ NoRename
    /\ NoReceive
    /\ NoArchives
    /\ NoLevels
    /\ NoCallers
    /\ Type \in Types
    /\ URL \in URLs
    /\ newServer
    /\ SuppressErrors \in BOOLEAN
    /\ now = StartTime
    /\ shownAt = <<>>
    /\ failedAt = <<>>
    /\ submitted = <<>> /\ executed = <<>>

NextServer ==
    \/ serverInit
    \/ serverTransport
    \/ \E res \in Responses : serverHandler(res)
    \/ serverClose
    \/ serverCloseReturn
    \/ tick

SpecServer == InitServer /\ [][NextServer]_vars

\* NewServerHook; without Synchronous(true) the worker goroutine is started.
InitHook ==
    /\ NoQueue
    /\ NoFile
    /\ NoServer
    /\ NoLogger
    /\ NoOldServer
    /\ NoConsole
    /\ NoRename
    /\ NoReceive
    /\ NoArchives
    /\ NoLevels
    /\ NoCallers
    /\ synchronous \in BOOLEAN
    /\ installed \in BOOLEAN
    /\ BufSize \in 1..MaxBufSize
    /\ SuppressErrors \in BOOLEAN
    /\ hbuf = <<>>
    /\ hwg = 0
    /\ nextError = 0
    /\ mu = [readers |-> 0, writer |-> "none"]
    /\ ustack = <<>>
    /\ typ \in Types
    /\ url \in URLs
    /\ herr = hookError(typ, url)
    /\ wstack = IF herr # "" \/ synchronous THEN <<>>
                ELSE <<frame("worker", "recv", 0, FALSE)>>
    /\ fired = 0
    /\ reports = 0
    /\ sent = {} /\ returned = {} /\ atFlush = <<>> /\ fatalFired = <<>>
    /\ now = StartTime
    /\ shownAt = <<>>
    /\ failedAt = <<>>
    /\ submitted = <<>> /\ executed = <<>>

NextHook ==
    \/ \E fatal \in BOOLEAN : Fire(fatal)
    \/ \E g \in Goroutines : fireRLock(g)
    \/ \E g \in Goroutines : fireSend(g)
    \/ \E g \in Goroutines : fireReturn(g)
    \/ \E g \in Goroutines : \E res \in Responses : sendEntry(g, res)
    \/ \E g \in Goroutines : logrusWrite(g)
    \/ workerRecv
    \/ workerDone
    \/ Flush
    \/ flushLock
    \/ flushReturn
    \/ tick

SpecHook == InitHook /\ [][NextHook]_vars

\* The hook in synchronous mode with two goroutines that log, not installed
\* on the logger its reports go to.
InitHookCallers == InitHook /\ synchronous /\ ~installed

NextHookCallers ==
    \/ \E fatal \in BOOLEAN : Fire(fatal)
    \/ \E fatal \in BOOLEAN : FireConcurrent(fatal)
    \/ \E g \in Goroutines : fireRLock(g)
    \/ \E g \in Goroutines : fireReturn(g)
    \/ \E g \in Goroutines : \E res \in Responses : sendEntry(g, res)
    \/ \E g \in Goroutines : logrusWrite(g)
    \/ tick

SpecHookCallers == InitHookCallers /\ [][NextHookCallers]_vars

\* Either no Logger exists yet, or the global logger that the package's
\* init() made with a ConsoleTransporter.
InitLogger ==
    /\ NoQueue
    /\ NoFile
    /\ NoReport
    /\ NoServer
    /\ NoHook
    /\ NoOldServer
    /\ NoConsole
    /\ NoRename
    /\ NoReceive
    /\ NoArchives
    /\ NoLevels
    /\ NoCallers
    /\ submitted = <<>> /\ executed = <<>>
    /\ \/ lg = "nil" /\ lts = <<>>
       \/ lg = "made" /\ lts = <<"console">>
    /\ lret = "" /\ largs = <<>> /\ lcalls = 0
    /\ fails \in {f \in [Transporters -> BOOLEAN] : ~f["console"]}
    /\ tinits = [t \in Transporters |-> 0]
    /\ topen = [t \in Transporters |-> FALSE]
    /\ tlog = [t \in Transporters |-> 0]
    /\ llogged = 0

NextLogger ==
    \/ \E ts \in TsLists : CreateLogger(ts)
    \/ \E ts \in TsLists : loggerInit(ts)
    \/ Log
    \/ loggerClose

SpecLogger == InitLogger /\ [][NextLogger]_vars

\* A ServerTransporter of transporter.go before its first entry: no queue
\* yet, the queue variables hold no goroutine.
InitOldServer ==
    /\ NoFile
    /\ NoReport
    /\ NoServer
    /\ NoHook
    /\ NoLogger
    /\ NoOldServer
    /\ NoConsole
    /\ NoRename
    /\ NoReceive
    /\ NoArchives
    /\ NoLevels
    /\ NoCallers
    /\ ConcurrencyLimit = 1 /\ buffer = <<>> /\ count = 0
    /\ suspended = FALSE /\ stopped = FALSE /\ wg = 0
    /\ runPc = "exited"
    /\ wk = [j \in Jobs |-> "none"]
    /\ cpc = "idle" /\ pushed = 0 /\ stops = 0 /\ waits = 0
    /\ atClose = <<>> /\ closeDone = FALSE
    /\ failed = {} /\ pending = {} /\ cval = 0
    /\ submitted = <<>> /\ executed = <<>>

NextOldServer ==
    \/ oldTransport
    \/ runPush
    \/ \E j \in Jobs : handler(j, TRUE)
    \/ \E j \in Jobs : runPop(j)
    \/ \E j \in Jobs : wgDone(j)
    \/ oldClose
    \/ runStop
    \/ oldCloseWait
    \/ waitReturn
    \/ oldCloseReturn

SpecOldServer == InitOldServer /\ [][NextOldServer]_vars

InitConsole ==
    /\ NoQueue
    /\ NoFile
    /\ NoReport
    /\ NoServer
    /\ NoHook
    /\ NoLogger
    /\ NoOldServer
    /\ NoRename
    /\ NoReceive
    /\ NoArchives
    /\ NoLevels
    /\ NoCallers
    /\ submitted = <<>> /\ executed = <<>>
    /\ MinLevel \in MinLevels
    /\ Output = <<>>
    /\ called = <<>>

NextConsole == \E level \in Levels : consoleTransport(level)

SpecConsole == InitConsole /\ [][NextConsole]_vars

\* renameAll is called with a map from files that exist, each file holding
\* its own name, to new names that are free or are files of the map: shifts
\* by one as rotateArchives builds them, and maps with a cycle or a
\* self-reference.
InitRename ==
    /\ NoQueue
    /\ NoFile
    /\ NoReport
    /\ NoServer
    /\ NoHook
    /\ NoLogger
    /\ NoOldServer
    /\ NoConsole
    /\ NoReceive
    /\ NoArchives
    /\ NoLevels
    /\ NoCallers
    /\ submitted = <<>> /\ executed = <<>>
    /\ fmap \in UNION {[K -> 1..(MaxName + 1)] : K \in SUBSET (1..MaxName)}
    /\ \A i, j \in DOMAIN fmap : i # j => fmap[i] # fmap[j]
    /\ fmap0 = fmap
    /\ fnames = DOMAIN fmap
    /\ \E present \in SUBSET (1..(MaxName + 1)) :
          /\ DOMAIN fmap \subseteq present
          /\ \A k \in DOMAIN fmap : fmap[k] \in DOMAIN fmap \/ fmap[k] \notin present
          /\ rfs = [n \in present |-> n]
    /\ rstack = <<>>
    /\ rpc = "loop"
    /\ rerr = ""
    /\ rclob = {}
    /\ rfails = 0

NextRename ==
    \/ renameAllLoop
    \/ renameRecursive
    \/ \E ok \in BOOLEAN : renameRecursiveRename(ok)

SpecRename == InitRename /\ [][NextRename]_vars

\* rotateArchives is called on a directory that holds <prefix>.1.gz, further
\* archives of the prefix and other files; a file holds its own name.
InitArchives ==
    /\ NoQueue
    /\ noFileSink
    /\ Rotations \in 0..MaxRotations
    /\ NoReport
    /\ NoServer
    /\ NoHook
    /\ NoLogger
    /\ NoOldServer
    /\ NoConsole
    /\ NoRename
    /\ NoReceive
    /\ NoLevels
    /\ NoCallers
    /\ submitted = <<>> /\ executed = <<>>
    /\ prefix \in Prefixes
    /\ \E present \in SUBSET names(prefix) :
          /\ archiveName(prefix, 1) \in present
          /\ archiveName(prefix, MaxIndex + 1) \notin present
          /\ Cardinality(present) <= MaxFiles
          /\ adir = [n \in present |-> n]
    /\ adir0 = adir
    /\ files = {}
    /\ renames = <<>>
    /\ removed = {}
    /\ renamed = {}
    /\ apc = "start"
    /\ stuck = {}

NextArchives ==
    \/ rotateArchivesReadDir
    \/ \E name \in Names : rotateArchivesFile(name)
    \/ rotateArchivesRenameAll
    \/ \E start \in Names : renameAllFile(start)
    \/ renameAllNil

SpecArchives == InitArchives /\ [][NextArchives]_vars

\* rotate enters its loop on a directory like that of InitArchives, with or
\* without <prefix>.1.gz; os.Remove fails on the files of stuck (a directory
\* that is not empty, a file that may not be deleted).
InitRotate ==
    /\ NoQueue
    /\ noFileSink
    /\ Rotations \in 0..MaxRotations
    /\ NoReport
    /\ NoServer
    /\ NoHook
    /\ NoLogger
    /\ NoOldServer
    /\ NoConsole
    /\ NoRename
    /\ NoReceive
    /\ NoLevels
    /\ NoCallers
    /\ submitted = <<>> /\ executed = <<>>
    /\ prefix \in Prefixes
    /\ \E present \in SUBSET names(prefix) :
          /\ archiveName(prefix, MaxIndex + 1) \notin present
          /\ Cardinality(present) <= MaxFiles
          /\ adir = [n \in present |-> n]
    /\ adir0 = adir
    /\ stuck \in SUBSET (DOMAIN adir)
    /\ files = {}
    /\ renames = <<>>
    /\ removed = {}
    /\ renamed = {}
    /\ apc = "exists"

NextRotate ==
    \/ \E statErr \in BOOLEAN : rotateFileExists(statErr)
    \/ rotateArchivesReadDir
    \/ rotateArchivesReadDirErr
    \/ \E name \in Names : rotateArchivesFile(name)
    \/ rotateArchivesRenameAll
    \/ \E start \in Names : renameAllFile(start)
    \/ \E start \in Names : renameAllErr(start)
    \/ renameAllNil
    \/ rotateAgain

SpecRotate == InitRotate /\ [][NextRotate]_vars

\* rotate runs in one goroutine, which takes its next step whenever it has
\* one: every statement is executed once it is reached, and no system call
\* is bound to fail.
FairSpecRotate ==
    /\ SpecRotate
    /\ WF_vars(\E statErr \in BOOLEAN : rotateFileExists(statErr))
    /\ WF_vars(rotateArchivesReadDir)
    /\ WF_vars(\E name \in Names : rotateArchivesFile(name))
    /\ WF_vars(rotateArchivesRenameAll)
    /\ WF_vars(\E start \in Names : renameAllFile(start))
    /\ WF_vars(renameAllNil)
    /\ WF_vars(rotateAgain)

\* A logger with MaxSinks transporters, each with a MinLevel of its own.
InitLevels ==
    /\ NoQueue
    /\ NoFile
    /\ NoReport
    /\ NoServer
    /\ NoHook
    /\ NoLogger
    /\ NoOldServer
    /\ NoConsole
    /\ NoRename
    /\ NoReceive
    /\ NoArchives
    /\ NoCallers
    /\ submitted = <<>> /\ executed = <<>>
    /\ impl \in {"Logger", "package"}
    /\ tmin \in [1..MaxSinks -> MinLevels]
    /\ got = [i \in 1..MaxSinks |-> <<>>]
    /\ logs = <<>>

NextLevels ==
    \/ \E level \in Levels : LogLevel(level)
    \/ \E level \in Levels : logInternal(level)

SpecLevels == InitLevels /\ [][NextLevels]_vars

\* A logger with its transporters, used by MaxCallers goroutines.
InitMutex ==
    /\ NoQueue
    /\ NoFile
    /\ NoReport
    /\ NoServer
    /\ NoHook
    /\ NoLogger
    /\ NoOldServer
    /\ NoConsole
    /\ NoRename
    /\ NoReceive
    /\ NoArchives
    /\ NoLevels
    /\ submitted = <<>> /\ executed = <<>>
    /\ lmu = 0
    /\ cts \in SinkLists
    /\ callers = [g \in Callers |-> idle]
    /\ observed = [t \in Sinks |-> <<>>]
    /\ entries = 0
    /\ calls = 0

NextMutex ==
    \/ \E g \in Callers : LogCall(g)
    \/ \E g \in Callers : \E ts \in SinkLists : InitCall(g, ts)
    \/ \E g \in Callers : CloseCall(g)
    \/ \E g \in Callers : lock(g)
    \/ \E g \in Callers : logTransport(g)
    \/ \E g \in Callers : \E ok \in BOOLEAN : initOrClose(g, ok)
    \/ \E g \in Callers : unlock(g)

SpecMutex == InitMutex /\ [][NextMutex]_vars

(***************************************************************************)
(* Claims                                                                  *)
(***************************************************************************)

\* Number of copies of a line on disk: in the live file and in the archives.
DiskCount(l) ==
    Occurrences(live, l)
    + Cardinality({p \in UNION {{<<n, i>> : i \in 1..Len(arch[n])} : n \in DOMAIN arch} :
                      arch[p[1]][p[2]] = l})

\* C1: with ConcurrencyLimit = 1 and one producer, the handlers run one at a
\* time and in the order in which the jobs were submitted.
C1_SubmissionOrder ==
    ConcurrencyLimit = 1 =>
        /\ IsPrefix(executed, submitted)
        /\ Cardinality({j \in Jobs : wk[j] = "handler"}) <= 1

C1_Witness ==
    /\ ConcurrencyLimit = 1
    /\ pushed = MaxJobs
    /\ executed = [i \in 1..MaxJobs |-> i]

\* C2: once stopQueue followed by wait has returned, every job accepted before
\* the stopQueue began has been executed exactly once.
C2_DrainOnClose ==
    closeDone => \A j \in Range(atClose) : Occurrences(executed, j) = 1

\* C3: renameAll, run on the map rotateArchives builds, never renames onto a
\* file that is still in place.
C3_NoOverwrite == clobbered = {}

C5_CrashSafe ==
    \A l \in (Range(live0) \cup Range(executed)) \ evicted : DiskCount(l) = 1

C7_TestRotate ==
    (/\ ppc = "closed" /\ RotateBytes = 0 /\ RotateLines > 0 /\ Rotations >= 2
     /\ arch0 = <<>> /\ live0 = <<>>) =>
        LET L == RotateLines
            n == logged
            q == n \div L
            k == Min(q, Rotations - 1)
        IN /\ DOMAIN arch = 1..k
           /\ \A i \in 1..k : arch[i] = [x \in 1..L |-> (q - i) * L + x]
           /\ live = [x \in 1..(n % L) |-> q * L + x]

\* C8: with RotateLines = L, byte rotation off and an empty live file, fewer
\* than L lines cause no rotation; the L-th line causes exactly one, which
\* leaves the live file empty and the line counter at zero.
C8_RotateAtThreshold ==
    (RotateBytes = 0 /\ RotateLines > 0 /\ live0 = <<>> /\ wpc = "idle") =>
        /\ Len(executed) < RotateLines =>
              (rotations = 0 /\ live = executed /\ flines = Len(live))
        /\ Len(executed) = RotateLines =>
              (rotations = 1 /\ live = <<>> /\ flines = 0)

C8_Witness ==
    /\ RotateBytes = 0 /\ RotateLines = MaxRotateLines /\ live0 = <<>>
    /\ wpc = "idle"
    /\ Len(executed) = RotateLines
    /\ rotations = 1

\* C9: a pushJob begun after stopQueue has returned is turned away: it does
\* not block for ever, and its job is not accepted and then dropped.
C9_RejectAfterStop ==
    stops > 0 =>
        /\ ~(cpc = "push" /\ runPc = "exited")
        /\ \A j \in Range(submitted) \ Range(atClose) :
              ~(runPc = "exited" /\ wk[j] = "none")

\* C10: a second stopQueue on the same queue returns without blocking.
C10_SecondStop == ~(cpc = "stop" /\ stops >= 1 /\ runPc = "exited")

\* C11: the jobs accepted and not yet executing never exceed a capacity C
\* fixed at construction, whatever C the queue was built with (every C that
\* MaxJobs submissions can exceed): a further submission blocks instead of
\* growing the buffer.
C11_CapacityBound == \E C \in 1..(MaxJobs - 2) : Len(buffer) <= C

\* C12: on a queue that is not stopped every accepted job is eventually
\* executed, and no job is executed twice, however many jobs wait behind a
\* slow handler.
C12_NoJobLost ==
    /\ \A j \in Jobs :
          (j \in Range(submitted)) ~> (stopped \/ j \in Range(executed))
    /\ [](\A j \in Jobs : Occurrences(executed, j) <= 1)

C12_Witness ==
    /\ stops = 0 /\ cpc # "stop"
    /\ Len(submitted) = MaxJobs
    /\ wg = 0
    /\ \A j \in Jobs : Occurrences(executed, j) = 1 /\ wk[j] = "end"

\* C13: a job whose handler failed is executed once and not again, and the
\* queue goes on: once run() has received the pop of the failed job on a queue
\* that is not stopped, the job submitted after it has been dispatched.
C13_FailureDoesNotStop ==
    \A i \in 1..Len(submitted) :
        LET f == submitted[i] IN
        f \in failed =>
            /\ Occurrences(executed, f) = 1
            /\ (~stopped /\ wk[f] \in {"done", "end"} /\ i < Len(submitted)) =>
                  wk[submitted[i + 1]] # "none"

C13_Witness ==
    /\ ConcurrencyLimit = 1
    /\ ~stopped
    /\ Len(executed) >= 2
    /\ executed[1] \in failed
    /\ executed[2] \notin failed
    /\ wk[executed[2]] = "end"

C15_CloseReInit ==
    (RotateBytes = 0 /\ RotateLines = 0 /\ ppc = "closed") =>
        live = live0 \o [i \in 1..logged |-> i]

C15_Witness ==
    /\ RotateBytes = 0 /\ RotateLines = 0 /\ ppc = "closed"
    /\ inits = 2
    /\ logged = 4
    /\ live = live0 \o <<1, 2, 3, 4>>

\* C16: an Init that follows a Close gives the sink the counters it had
\* before the Close (the live file's line count and size) and leaves the live
\* file and the archives as they were, so the writes that follow rotate where
\* they would have rotated without the Close / Init.
C16_ReInitKeepsBoundaries ==
    [][(fileInit /\ ppc = "closed") =>
          /\ flines' = flines
          /\ fsize' = fsize
          /\ live' = live
          /\ arch' = arch]_vars

C16_Witness ==
    /\ RotateBytes = 0 /\ RotateLines = 2
    /\ live0 = <<>> /\ arch0 = <<>>
    /\ inits = 2 /\ ppc = "open"
    /\ logged = 3
    /\ rotations = 1
    /\ wpc = "idle" /\ fq = <<>>
    /\ arch = (1 :> <<1, 2>>)
    /\ live = <<3>>
    /\ flines = 1

\* C14: once rotateArchives has returned an error and until the next
\* rotation begins, the live file keeps the lines it had, every archive that
\* existed is still there with its content, and the counters are not reset.
C14_RotationAbandoned ==
    (shiftErr # <<>> /\ rotations = shiftErr[1].rotations) =>
        /\ IsPrefix(shiftErr[1].live, live)
        /\ \A n \in DOMAIN shiftErr[1].arch :
              n \in DOMAIN arch /\ arch[n] = shiftErr[1].arch[n]
        /\ flines >= shiftErr[1].flines
        /\ fsize >= shiftErr[1].fsize

\* C18: two errors of the file sink that are written to the console are more
\* than the cool-down apart.
C18_FileThrottled ==
    \A i, j \in 1..Len(shownAt) :
        i < j => shownAt[j].at - shownAt[i].at > CoolDown

\* C17 (as claimed): with a handler that fails, the errors the remote sink
\* writes to the console are more than the cool-down apart, and every failure
\* has an error written at most the cool-down before it (or is the one
\* written).
C17_OnePerWindow ==
    /\ \A i, j \in 1..Len(shownAt) :
          i < j => shownAt[j].at - shownAt[i].at > CoolDown
    /\ ~SuppressErrors =>
          \A k \in 1..Len(failedAt) : \E i \in 1..Len(shownAt) :
              /\ shownAt[i].at <= failedAt[k].at
              /\ failedAt[k].at - shownAt[i].at <= CoolDown

\* C17 (amended): the same between one Init and the next: Init sets
\* lastErrorShown to 0, so the window is counted from the errors written
\* since the latest Init only.
C17_OnePerWindowPerInit ==
    /\ \A i, j \in 1..Len(shownAt) :
          (i < j /\ shownAt[i].init = shownAt[j].init) =>
              shownAt[j].at - shownAt[i].at > CoolDown
    /\ ~SuppressErrors =>
          \A k \in 1..Len(failedAt) : \E i \in 1..Len(shownAt) :
              /\ shownAt[i].init = failedAt[k].init
              /\ shownAt[i].at <= failedAt[k].at
              /\ failedAt[k].at - shownAt[i].at <= CoolDown
    /\ SuppressErrors => shownAt = <<>>

C17_Witness ==
    /\ ~SuppressErrors
    /\ Len(failedAt) = MaxEntries
    /\ \A k \in 1..Len(failedAt) : failedAt[k].init = 1
    /\ Len(shownAt) = 2
    /\ shownAt[2].at = shownAt[1].at + CoolDown + 1

\* C19: an entry that logrus made for an error report of the hook is never
\* handed to the hook's Fire and never put in its channel.
C19_NoFeedback ==
    /\ \A i \in 1..Len(ustack) : ustack[i].e >= 0
    /\ \A i \in 1..Len(wstack) : wstack[i].e >= 0
    /\ \A i \in 1..Len(hbuf) : hbuf[i] > 0

C22_EmptyTypeOrURL ==
    (Type = "" \/ URL = "") =>
        /\ spc = "new"
        /\ sq = <<>>
        /\ sinits = 0
        /\ initErr \in {"", "empty log type", "empty url"}
        /\ slogged = 0

C22_Witness ==
    /\ Type # "" /\ URL = ""
    /\ initErr = "empty url"
    /\ spc = "new"
    /\ now > StartTime

\* C23: CreateLogger / Init returns an error exactly when the Init of one of
\* the transporters given returns one, the error of the first such
\* transporter; then no Logger is made by CreateLogger and the transporter
\* list of an existing Logger is as it was.
C23_InitErrorReturned ==
    [][lcalls' # lcalls =>
          /\ (lret' # "") <=> (\E i \in 1..Len(largs') : fails[largs'[i]])
          /\ lret' # "" =>
                /\ fails[lret']
                /\ lts' = lts
                /\ lg' = lg]_vars

C23_Witness ==
    /\ lcalls = 2
    /\ lg = "made"
    /\ largs = <<"console", "server", "file">>
    /\ lret = "server"
    /\ lts = <<"file">>
    /\ tlog["file"] = 1

\* C24: an entry logged to a sink after a Close of the sink has returned is
\* dropped: no queue of the sink accepts it and no handler runs for it.
C24_DroppedAfterClose ==
    \A j \in late : j \notin Range(submitted) /\ j \notin Range(executed)

\* C25: showError is called for a request exactly when it ended in an error
\* or in a response whose status is not 2xx.
C25_ErrorsRouted ==
    lastRes # <<>> =>
        (lastCalled <=> (lastRes[1].err \/ lastRes[1].status \notin 200..299))

\* C26: when Flush has returned, sendEntry has returned for every entry whose
\* Fire had returned when Flush was called.
C26_FlushWaits ==
    (atFlush # <<>> /\ ustack = <<>>) => atFlush[1] \subseteq sent

C26_Witness ==
    /\ ~synchronous
    /\ atFlush # <<>> /\ ustack = <<>>
    /\ atFlush[1] = 1..MaxEntries
    /\ failedAt # <<>>

\* The order of the levels as the claim gives it.
LevelOrder == <<"trace", "debug", "info", "warn", "error", "fatal">>

Rank(l) == CHOOSE i \in 1..Len(LevelOrder) : LevelOrder[i] = l

\* The entries a transporter with minimum m lets through.
Admitted(l, m) == m \in Range(LevelOrder) => Rank(l) >= Rank(m)

RECURSIVE AdmittedOf(_, _)
AdmittedOf(ls, m) ==
    IF ls = <<>> THEN <<>>
    ELSE IF Admitted(Head(ls), m) THEN <<Head(ls)>> \o AdmittedOf(Tail(ls), m)
    ELSE AdmittedOf(Tail(ls), m)

\* C27: the lines a ConsoleTransporter has written are, in order, the entries
\* whose level is at least MinLevel in trace < debug < info < warn < error <
\* fatal; all entries when MinLevel is empty or no level.
C27_MinLevel == Output = AdmittedOf(called, MinLevel)

C27_Witness ==
    /\ MinLevel = "warn"
    /\ called = <<"info", "warn">>
    /\ Output = <<"warn">>

\* The rename map has a cycle or a self-reference: following the targets
\* from some file leads back to it.
RECURSIVE Reaches(_, _, _, _)
Reaches(m, from, to, n) ==
    /\ n > 0
    /\ from \in DOMAIN m
    /\ (m[from] = to \/ Reaches(m, m[from], to, n - 1))

Cyclic(m) == \E k \in DOMAIN m : Reaches(m, k, k, Cardinality(DOMAIN m))

\* C28: for a map without a cycle, when an os.Rename has failed renameAll
\* returns an error, and no os.Rename replaces a file.
C28_PartialFailure ==
    ~Cyclic(fmap0) =>
        /\ rclob = {}
        /\ (rpc = "done" /\ rfails > 0) => rerr # ""

\* C29: for a map with a cycle or a self-reference, and with no os.Rename
\* failing on a file that exists, renameAll returns an error and no os.Rename
\* replaces a file.
C29_CycleDetected ==
    (Cyclic(fmap0) /\ rfails = 0) =>
        /\ rclob = {}
        /\ rpc = "done" => rerr # ""

\* C30: when wait() returns on a queue that was not stopped, the handler of
\* every job whose pushJob returned before wait() was called has returned
\* (the client is one goroutine: these are the jobs 1..pushed).
C30_WaitCoversPushed ==
    [][(cpc = "wait" /\ cpc' = "idle" /\ stops = 0) =>
          \A j \in 1..pushed : j \in Range(executed)]_vars

\* C31: with ConcurrencyLimit = c > 0 at most c handlers are in progress, and
\* count is the number of handlers started and not yet acknowledged by their
\* pop, so 0 <= count <= c.
C31_ConcurrencyLimit ==
    /\ count = Cardinality({j \in Jobs : wk[j] \in {"handler", "pop"}})
    /\ ConcurrencyLimit > 0 =>
          /\ Cardinality({j \in Jobs : wk[j] = "handler"}) <= ConcurrencyLimit
          /\ count \in 0..ConcurrencyLimit

C31_Witness ==
    /\ ConcurrencyLimit = 2
    /\ count = 2
    /\ Cardinality({j \in Jobs : wk[j] = "handler"}) = 2
    /\ buffer # <<>>

\* C32: when the loop of rotateArchives is over, every file that was named
\* <prefix>.<N>.gz, N >= 1 (also N >= 10), has been removed if index N is
\* to be evicted, and is otherwise in renames with the target
\* <prefix>.<N+1>.gz.
C32_EveryGeneration ==
    apc \in {"rename", "done"} =>
        \A N \in 1..MaxIndex :
            LET name == archiveName(prefix, N) IN
            name \in DOMAIN adir0 =>
                IF evict(N)
                THEN name \in removed
                ELSE /\ name \in DOMAIN renames
                     /\ renames[name] = archiveName(prefix, N + 1)

\* C39: every call of rotate leaves the loop that shifts the archives, also
\* when os.Remove or os.Rename fails inside rotateArchives.
C39_RotateTerminates == <>(apc \in {"break", "Stat", "ReadDir", "Rename"})

\* A step of Flush, of a Fire in progress or of the worker.
hookStep ==
    \/ \E g \in Goroutines : fireRLock(g) \/ fireSend(g) \/ fireReturn(g)
    \/ \E g \in Goroutines : \E res \in Responses : sendEntry(g, res)
    \/ \E g \in Goroutines : logrusWrite(g)
    \/ workerRecv
    \/ workerDone
    \/ flushLock
    \/ flushReturn

\* C33: while Flush is in progress some goroutine of the hook can take a
\* step: Flush, the worker and the Fire calls never all wait for one another
\* (call stacks below the explored depth).
C33_FlushNoDeadlock ==
    (/\ ustack # <<>>
     /\ top(ustack).fn = "Flush"
     /\ Len(wstack) < MaxDepth) => ENABLED hookStep

\* C34: in asynchronous mode, once Fire has returned for an entry at Fatal or
\* Panic level, sendEntry has returned for that entry and for every entry
\* fired before it, and nothing is left in the channel.
C34_FatalWaits ==
    (~synchronous /\ fatalFired # <<>> /\ ustack = <<>>) =>
        /\ 1..fatalFired[1] \subseteq sent
        /\ hbuf = <<>>

C34_Witness ==
    /\ ~synchronous
    /\ fatalFired = <<MaxEntries>>
    /\ ustack = <<>>
    /\ sent = 1..MaxEntries
    /\ failedAt # <<>>

\* C35: in synchronous mode two error reports of the hook are more than the
\* cool-down apart, whichever goroutines made them.
C35_OneReportPerWindow ==
    synchronous =>
        \A i, j \in 1..Len(shownAt) :
            i < j => shownAt[j].at - shownAt[i].at > CoolDown

\* C36: every transporter of a logger has written, in order, the entries
\* that its own MinLevel admits, whatever the other transporters reject and
\* wherever they stand in the list.
C36_IndependentFilters ==
    \A i \in DOMAIN tmin : got[i] = AdmittedOf(logs, tmin[i])

\* Entry a stands before entry b in the sequence seq.
Before(seq, a, b) ==
    \E i, j \in 1..Len(seq) : i < j /\ seq[i] = a /\ seq[j] = b

\* C37: two entries that two transporters have both been handed were handed
\* to both in the same order, and while a goroutine is inside Log, init or
\* Close no other goroutine is, and l.ts is the list the call ranges over.
C37_SameOrder ==
    /\ \A s, t \in DOMAIN observed : \A a, b \in 1..entries :
          (Before(observed[s], a, b) /\ a \in Range(observed[t])
           /\ b \in Range(observed[t])) => Before(observed[t], a, b)
    /\ \A g, h \in DOMAIN callers :
          (callers[g].pc \in {"loop", "failed"}
           /\ callers[h].pc \in {"loop", "failed"}) => g = h
    /\ \A g \in DOMAIN callers :
          (callers[g].op = "Log" /\ callers[g].pc = "loop") =>
              callers[g].ts = cts

C37_Witness ==
    /\ observed = [t \in Sinks |-> <<2, 1>>]
    /\ \E g \in Callers : callers[g].op = "init" /\ callers[g].pc = "lock"

\* C38: a CreateLogger or Init call that returns an error leaves open no
\* transporter that was not open before the call.
C38_NothingLeftOpen ==
    [][(lcalls' # lcalls /\ lret' # "") =>
          \A t \in Transporters : topen'[t] => topen[t]]_vars

====
